---- MODULE Spec2Model ----
(***************************************************************************)
(* Reminder engine of the baby-sleep bot: the notification store           *)
(* (preferences, notification_history), the condition evaluators, the      *)
(* cooldown check and the scheduler pass with its delivery pipeline.       *)
(* Time is counted in seconds (the unit of timedelta.total_seconds()).     *)
(***************************************************************************)
EXTENDS Integers, Sequences, FiniteSets, TLC

\* ---------------------------------------------------------------- bounds
MaxTicks == 2          \* scheduler ticks modelled
MaxAttempts == 1       \* send attempts of one delivery the notifier rate-limits
MaxEnvOps == 1         \* writes by the users (sessions, preferences)
MaxFaults == 1         \* store calls that fail
MaxTime == 1500        \* latest instant (s) at which a rate-limit wait may end
MaxPeerPasses == 1     \* passes of a second scheduler instance
MaxPad == 11           \* rows placed in front of a successful history row
MaxAge == 30           \* greatest age (months) the band table is queried with
MaxNegAge == 3         \* the ages queried go down to -MaxNegAge
MaxUserOps == 3        \* preference and settings operations of the users
MaxYears == 3          \* birth dates queried reach back this many years
MaxLiveTicks == 9      \* scheduler ticks of the runs that are checked for progress
MaxFailedPasses == 1   \* passes in which the notifier may still refuse a message

\* ------------------------------------------------------ program constants
SLEEP_REMINDERS == "sleep_reminders"
BEDTIME_ALERTS == "bedtime_alerts"
NOTIFICATION_INTERVAL_MINUTES == 10
REMINDER_MIN_INTERVAL == 60
BEDTIME_MIN_INTERVAL == 30
HISTORY_LIMIT == 10
BEDTIME_WINDOW_MINUTES == 10
MAX_INSTANCES == 1

\* ------------------------------------------------------------ the fixture
Users == <<"u1", "u2">>
UserSet == {"u1", "u2"}
\* The children rows of a user. d is a row whose date_of_birth cannot be read:
\* its age lookup returns None and no evaluator looks at its sessions.
ChildrenOf(u) == IF u = "u1" THEN <<"a", "b">> ELSE <<"c", "d">>
ChildSet == {"a", "b", "c"}
Undated == {"d"}
\* Dates as (year, month), the two fields the age computation reads.
Today == [year |-> 2025, month |-> 6]
BirthDate ==
    [c \in ChildSet \cup Undated |->
        IF c = "a" THEN <<[year |-> 2025, month |-> 4]>>
        ELSE IF c = "b" THEN <<[year |-> 2025, month |-> 1]>>
        ELSE IF c = "c" THEN <<[year |-> 2022, month |-> 12]>>
        ELSE <<>>]
Kinds == {SLEEP_REMINDERS, BEDTIME_ALERTS}
\* A preference kind no pass reads.
WAKE_REMINDERS == "wake_reminders"
\* Sessions closed before the modelled window: none at all; or a's bedtime
\* (45 min after -1800) falling in the window of the first tick and c's last
\* sleep long ago; or, with these, b's bedtime (90 min after -4000) falling
\* in the window of the second tick.
InitSessions ==
    { [c \in ChildSet |-> {}],
      [c \in ChildSet |-> IF c = "a" THEN {-1800} ELSE IF c = "b" THEN {} ELSE {-10500}],
      [c \in ChildSet |-> IF c = "a" THEN {-1800} ELSE IF c = "b" THEN {-4000} ELSE {-10500}] }
\* History rows written before the modelled window.
InitLogs ==
    { <<>>,
      <<[user |-> "u1", kind |-> "sleep_reminders", child |-> "a", sent_at |-> -3000,
         success |-> TRUE, msg |-> 0]>> }
RetryAfters == {5, 900}
Failures == {"chat_not_found", "bad_request", "error"}

VARIABLES now, prefs, settings, closedEnds, openSess, log, pc, kind, users, idx, cur,
          nextMsg, sent, attempts, passNo, envOps, faults, running, peer

vars == <<now, prefs, settings, closedEnds, openSess, log, pc, kind, users, idx, cur,
          nextMsg, sent, attempts, passNo, envOps, faults, running, peer>>

storeVars == <<prefs, settings, closedEnds, openSess, envOps>>
passVars == <<pc, kind, users, idx, cur, passNo, running, peer>>

\* --------------------------------------------------------------- helpers
Take(s, n) == IF Len(s) <= n THEN s ELSE SubSeq(s, 1, n)

Range(s) == {s[i] : i \in 1..Len(s)}

\* ORDER BY sent_at DESC: insertion of e into a sequence sorted by sent_at,
\* newest first (a later row of equal sent_at goes in front).
RECURSIVE InsertDesc(_, _)
InsertDesc(e, s) ==
    IF s = <<>> THEN <<e>>
    ELSE IF e.sent_at >= Head(s).sent_at THEN <<e>> \o s
    ELSE <<Head(s)>> \o InsertDesc(e, Tail(s))

RECURSIVE OrderBySentAtDesc(_)
OrderBySentAtDesc(s) ==
    IF s = <<>> THEN <<>>
    ELSE InsertDesc(s[Len(s)], OrderBySentAtDesc(SubSeq(s, 1, Len(s) - 1)))

\* ------------------------------------------------------------ age policy
get_age_based_recommendations_Strict(age_in_months) ==
    IF age_in_months < 3 THEN [wake_window |-> 45, sleep_duration |-> 120]
    ELSE IF age_in_months < 6 THEN [wake_window |-> 90, sleep_duration |-> 90]
    ELSE IF age_in_months < 12 THEN [wake_window |-> 120, sleep_duration |-> 90]
    ELSE IF age_in_months < 24 THEN [wake_window |-> 180, sleep_duration |-> 120]
    ELSE [wake_window |-> 240, sleep_duration |-> 90]

get_age_based_recommendations(age_in_months) ==
    IF age_in_months <= 3 THEN [wake_window |-> 45, sleep_duration |-> 120]
    ELSE IF age_in_months <= 6 THEN [wake_window |-> 90, sleep_duration |-> 90]
    ELSE IF age_in_months <= 12 THEN [wake_window |-> 120, sleep_duration |-> 90]
    ELSE IF age_in_months <= 24 THEN [wake_window |-> 180, sleep_duration |-> 120]
    ELSE [wake_window |-> 240, sleep_duration |-> 90]

get_child_age_in_months_Unclamped(birth_date, today) ==
    IF birth_date = <<>> THEN <<>>
    ELSE <<(today.year - birth_date[1].year) * 12 + (today.month - birth_date[1].month)>>

\* birth_date: <<>> when the children row is missing or its date cannot be
\* parsed (the result is None, here <<>>), <<date>> otherwise.
get_child_age_in_months(birth_date, today) ==
    IF birth_date = <<>> THEN <<>>
    ELSE LET months == (today.year - birth_date[1].year) * 12
                           + (today.month - birth_date[1].month)
         IN  <<IF months > 0 THEN months ELSE 0>>

age_months(c) == get_child_age_in_months(BirthDate[c], Today)

ChildAge == [c \in ChildSet |-> age_months(c)[1]]

\* ---------------------------------------------------- condition evaluator
SetMax(S) == CHOOSE x \in S : \A y \in S : y <= x

\* sleep_sessions ... .order('end_time', desc=True).limit(1): the rows of one
\* child, an open session (end_time NULL) first, then the closed sessions by
\* descending end_time; at most one row is returned.
latest_session(c) ==
    IF openSess[c] THEN <<[is_null |-> TRUE, end_time |-> 0]>>
    ELSE IF closedEnds[c] = {} THEN <<>>
    ELSE <<[is_null |-> FALSE, end_time |-> SetMax(closedEnds[c])]>>

evaluator_raises_Never(u) == FALSE

\* datetime.fromisoformat(last_session['end_time'].replace(...)) raises on a
\* row whose end_time is null; the evaluator's except then returns [].
evaluator_raises(u) ==
    \E c \in Range(ChildrenOf(u)) :
        age_months(c) # <<>> /\ latest_session(c) # <<>> /\ latest_session(c)[1].is_null

needs_reminder_AtThreshold(c, t) ==
    LET sessions_result == latest_session(c)
    IN  IF sessions_result = <<>> THEN TRUE
        ELSE (t - sessions_result[1].end_time)
                 >= get_age_based_recommendations(ChildAge[c]).sleep_duration * 2 * 60

needs_reminder(c, t) ==
    LET expected_interval_minutes ==
            get_age_based_recommendations(ChildAge[c]).sleep_duration * 2
        sessions_result == latest_session(c)
    IN  IF sessions_result = <<>> THEN TRUE
        ELSE (t - sessions_result[1].end_time) > expected_interval_minutes * 60

time_until_bedtime(c, t) ==
    (latest_session(c)[1].end_time
        + get_age_based_recommendations(ChildAge[c]).wake_window * 60) - t

needs_bedtime_alert_Open(c, t) ==
    /\ latest_session(c) # <<>>
    /\ 0 < time_until_bedtime(c, t)
    /\ time_until_bedtime(c, t) < BEDTIME_WINDOW_MINUTES * 60

needs_bedtime_alert(c, t) ==
    /\ latest_session(c) # <<>>
    /\ 0 <= time_until_bedtime(c, t)
    /\ time_until_bedtime(c, t) <= BEDTIME_WINDOW_MINUTES * 60

RECURSIVE reminder_infos(_, _)
reminder_infos(cs, t) ==
    IF cs = <<>> THEN <<>>
    ELSE (IF age_months(Head(cs)) # <<>> /\ needs_reminder(Head(cs), t)
          THEN <<[child |-> Head(cs),
                  last_session_time |-> IF latest_session(Head(cs)) = <<>> THEN <<>>
                                        ELSE <<latest_session(Head(cs))[1].end_time>>]>>
          ELSE <<>>) \o reminder_infos(Tail(cs), t)

minutes_until_bedtime_Rounded(time_until_seconds) == (time_until_seconds + 30) \div 60

\* int(time_until_bedtime.total_seconds() // 60)
minutes_until_bedtime(time_until_seconds) == time_until_seconds \div 60

RECURSIVE bedtime_infos(_, _)
bedtime_infos(cs, t) ==
    IF cs = <<>> THEN <<>>
    ELSE (IF age_months(Head(cs)) # <<>> /\ needs_bedtime_alert(Head(cs), t)
          THEN <<[child |-> Head(cs),
                  minutes_until_bedtime |->
                      minutes_until_bedtime(time_until_bedtime(Head(cs), t))]>>
          ELSE <<>>) \o bedtime_infos(Tail(cs), t)

\* storeOk = FALSE: a store call of the evaluator raises.
get_children_needing_reminders(u, t, storeOk) ==
    IF ~storeOk \/ evaluator_raises(u) THEN <<>> ELSE reminder_infos(ChildrenOf(u), t)

get_children_needing_bedtime_alerts(u, t, storeOk) ==
    IF ~storeOk \/ evaluator_raises(u) THEN <<>> ELSE bedtime_infos(ChildrenOf(u), t)

\* ----------------------------------------------------- notification store
\* The notifications table is a set of rows (user, kind, enabled).
pref_rows(rows, u, k) == {r \in rows : r.user = u /\ r.kind = k}

upsert_Insert(rows, row) == rows \cup {row}

\* upsert(..., on_conflict='user_id,notification_type'): the row of the same
\* (user, kind) is replaced, any other row is kept.
upsert(rows, row) ==
    {r \in rows : ~(r.user = row.user /\ r.kind = row.kind)} \cup {row}

\* notifications ... .eq('notification_type', k).eq('enabled', True), joined
\* with users.
RECURSIVE enabled_users(_, _)
enabled_users(us, k) ==
    IF us = <<>> THEN <<>>
    ELSE (IF \E r \in pref_rows(prefs, Head(us), k) : r.enabled
          THEN <<Head(us)>> ELSE <<>>)
         \o enabled_users(Tail(us), k)

\* The row's enabled value, True when the user has no row of the kind.
is_notification_enabled(u, k) ==
    IF pref_rows(prefs, u, k) # {}
    THEN (CHOOSE r \in pref_rows(prefs, u, k) : TRUE).enabled
    ELSE TRUE

get_users_for_notification_type(k, storeOk) ==
    IF storeOk THEN enabled_users(Users, k) ELSE <<>>

get_notification_history(lg, u, k, limit, storeOk) ==
    IF storeOk
    THEN Take(OrderBySentAtDesc(SelectSeq(lg, LAMBDA e : e.user = u /\ e.kind = k)), limit)
    ELSE <<>>

NoChild == "no_child"

should_send_notification_Always(lg, t, u, k, child_id, min_interval_minutes, storeOk) == TRUE

sent_recently_Weak(time_since_seconds, min_interval_minutes) ==
    time_since_seconds <= min_interval_minutes * 60

sent_recently_Minutes(time_since_seconds, min_interval_minutes) ==
    time_since_seconds < min_interval_minutes

sent_recently(time_since_seconds, min_interval_minutes) ==
    time_since_seconds < min_interval_minutes * 60

RECURSIVE check_history(_, _, _, _)
check_history(history, child_id, min_interval_minutes, t) ==
    IF history = <<>> THEN TRUE
    ELSE LET notification == Head(history) IN
         IF notification.success
         THEN IF child_id # NoChild /\ notification.child # child_id
              THEN check_history(Tail(history), child_id, min_interval_minutes, t)
              ELSE ~sent_recently(t - notification.sent_at, min_interval_minutes)
         ELSE check_history(Tail(history), child_id, min_interval_minutes, t)

should_send_notification_FailClosed(lg, t, u, k, child_id, min_interval_minutes, storeOk) ==
    /\ storeOk
    /\ check_history(get_notification_history(lg, u, k, HISTORY_LIMIT, storeOk),
                     child_id, min_interval_minutes, t)

should_send_notification(lg, t, u, k, child_id, min_interval_minutes, storeOk) ==
    LET history == get_notification_history(lg, u, k, HISTORY_LIMIT, storeOk)
    IN  IF history = <<>> THEN TRUE
        ELSE check_history(history, child_id, min_interval_minutes, t)

log_entry(u, k, c, msg, t) ==
    [user |-> u, kind |-> k, child |-> c, sent_at |-> t, success |-> TRUE, msg |-> msg]

log_notifications_sent_FirstOnly(lg, u, k, infos, msg, t, accepted) ==
    IF infos # <<>> /\ Head(infos).child \in accepted
    THEN Append(lg, log_entry(u, k, Head(infos).child, msg, t)) ELSE lg

log_notifications_sent_Prepends(lg, u, k, infos, msg, t, accepted) ==
    [i \in 1..Len(infos) |-> log_entry(u, k, infos[i].child, msg, t)] \o lg

\* log_notification_sent for each child of children_info whose insert the
\* store accepts (accepted: the children whose insert succeeds).
RECURSIVE log_notifications_sent(_, _, _, _, _, _, _)
log_notifications_sent(lg, u, k, infos, msg, t, accepted) ==
    IF infos = <<>> THEN lg
    ELSE log_notifications_sent(
            IF Head(infos).child \in accepted
            THEN Append(lg, log_entry(u, k, Head(infos).child, msg, t)) ELSE lg,
            u, k, Tail(infos), msg, t, accepted)

\* ------------------------------------------------------------- the state
NoDelivery == [user |-> "nobody", infos |-> <<>>, allowed |-> FALSE, wake |-> 0, logLen |-> 0]

\* A second process running the same service against the same store: its
\* position in its own pass.
NoPeer == [pc |-> "idle", kind |-> SLEEP_REMINDERS, users |-> <<>>, idx |-> 1,
           infos |-> <<>>, logLen |-> 0, passNo |-> 0]

pref_row(u, k, enabled) == [user |-> u, kind |-> k, enabled |-> enabled]

\* The rows initialize_user_notifications leaves for user u in table rows.
initialize_user_notifications_KeepsExisting(rows, u) ==
    rows \cup {pref_row(u, k, TRUE) : k \in {j \in Kinds \cup {WAKE_REMINDERS} : pref_rows(rows, u, j) = {}}}

initialize_user_notifications(rows, u) ==
    upsert(upsert(upsert(rows, pref_row(u, SLEEP_REMINDERS, TRUE)),
                  pref_row(u, BEDTIME_ALERTS, TRUE)),
           pref_row(u, WAKE_REMINDERS, TRUE))

\* The rows migrate_user_settings leaves for user u: sleep_reminders and
\* bedtime_alerts take the value of settings.sleep_reminders, wake_reminders
\* that of settings.wake_reminders.
migrate_user_settings(rows, u, user_settings) ==
    upsert(upsert(upsert(rows, pref_row(u, SLEEP_REMINDERS, user_settings.sleep_reminders)),
                  pref_row(u, BEDTIME_ALERTS, user_settings.sleep_reminders)),
           pref_row(u, WAKE_REMINDERS, user_settings.wake_reminders))

\* u1 registered with every kind; u2 has a sleep_reminders row only (the
\* bedtime_alerts upsert of its registration failed).
InitPrefs ==
    upsert(initialize_user_notifications({}, "u1"), pref_row("u2", SLEEP_REMINDERS, TRUE))

\* users.settings as register_user writes it; last_reminder_sent of u1 holds
\* a record written by mark_reminder_sent of an earlier deployment.
RegisteredSettings ==
    [notifications_enabled |-> TRUE, sleep_reminders |-> TRUE, wake_reminders |-> TRUE,
     last_reminder_sent |-> <<>>]

LegacyReminder == <<[timestamp |-> -3000, child_ids |-> {"a", "b"}]>>

InitSettings ==
    [u \in UserSet |-> IF u = "u1"
                       THEN [RegisteredSettings EXCEPT !.last_reminder_sent = LegacyReminder]
                       ELSE RegisteredSettings]

Init ==
    /\ now = 0
    /\ prefs = InitPrefs
    /\ settings = InitSettings
    /\ closedEnds \in InitSessions
    /\ openSess = [c \in ChildSet |-> FALSE]
    /\ log \in InitLogs
    /\ pc = "idle"
    /\ kind = SLEEP_REMINDERS
    /\ users = <<>>
    /\ idx = 1
    /\ cur = NoDelivery
    /\ nextMsg = 1
    /\ sent = <<>>
    /\ attempts = <<>>
    /\ passNo = 0
    /\ envOps = 0
    /\ faults = 0
    /\ running = 0
    /\ peer = NoPeer

\* -------------------------------------------------------- scheduler pass
MinInterval(k) == IF k = SLEEP_REMINDERS THEN REMINDER_MIN_INTERVAL ELSE BEDTIME_MIN_INTERVAL

children_needing(k, u, t, storeOk) ==
    IF k = SLEEP_REMINDERS THEN get_children_needing_reminders(u, t, storeOk)
    ELSE get_children_needing_bedtime_alerts(u, t, storeOk)

\* IntervalTrigger(minutes=NOTIFICATION_INTERVAL_MINUTES): the next fire time
\* after t on the trigger's grid.
next_fire_time(t) ==
    ((t \div (NOTIFICATION_INTERVAL_MINUTES * 60)) + 1) * (NOTIFICATION_INTERVAL_MINUTES * 60)

can_submit_Always(instances) == TRUE

\* add_job(...) without max_instances: the scheduler submits a run of the job
\* only while fewer than max_instances (default 1) runs of it are executing.
can_submit(instances) == instances < MAX_INSTANCES

\* n store calls of the step fail (the model bounds the failures of a run).
Faulted(n) == faults + n <= MaxFaults /\ faults' = faults + n

\* The job fires: check_all_notifications enters check_and_send_reminders,
\* which lists the users with sleep reminders enabled.
TickFiresUpTo(storeOk, ticks) ==
    /\ Faulted(IF storeOk THEN 0 ELSE 1)
    /\ pc = "idle"
    /\ passNo < ticks
    /\ can_submit(running)
    /\ running' = running + 1
    /\ now' = next_fire_time(now)
    /\ passNo' = passNo + 1
    /\ kind' = SLEEP_REMINDERS
    /\ users' = get_users_for_notification_type(SLEEP_REMINDERS, storeOk)
    /\ idx' = 1
    /\ pc' = "loop"
    /\ UNCHANGED <<storeVars, log, cur, nextMsg, sent, attempts, peer>>

\* The ticks of a run are bounded by MaxTicks.
TickFires(storeOk) == TickFiresUpTo(storeOk, MaxTicks)

\* The dedup of mark_reminder_sent / should_send_reminder on the field
\* users.settings.last_reminder_sent: refuse when the children are those of
\* the last reminder and none of them has a session that ended after it; a
\* null end_time raises and the except returns True. No pass calls it.
should_send_reminder(u, child_ids) ==
    LET last_reminder == settings[u].last_reminder_sent IN
    IF last_reminder = <<>> THEN TRUE
    ELSE IF last_reminder[1].child_ids = child_ids
         THEN \E c \in child_ids :
                  /\ latest_session(c) # <<>>
                  /\ \/ latest_session(c)[1].is_null
                     \/ latest_session(c)[1].end_time > last_reminder[1].timestamp
         ELSE TRUE

will_send_LastReminder(children, allowed) ==
    /\ children # <<>>
    /\ allowed
    /\ should_send_reminder(users[idx], {children[i].child : i \in 1..Len(children)})

will_send_NoCooldown(children, allowed) == children # <<>>

\* "if children_needing_reminders:" and "if should_send_notification(...)".
will_send(children, allowed) == children # <<>> /\ allowed

CheckUser_Writes(evalOk, histOk) ==
    /\ Faulted((IF evalOk THEN 0 ELSE 1) + (IF histOk THEN 0 ELSE 1))
    /\ pc = "loop"
    /\ idx <= Len(users)
    /\ idx' = idx + 1
    /\ log' = Append(log, log_entry(users[idx], kind, NoChild, 0, now))
    /\ UNCHANGED <<now, storeVars, pc, cur, kind, users, nextMsg, sent, attempts, passNo, running, peer>>

CheckUser_PerChildCooldown(evalOk, histOk) ==
    /\ Faulted((IF evalOk THEN 0 ELSE 1) + (IF histOk THEN 0 ELSE 1))
    /\ pc = "loop"
    /\ idx <= Len(users)
    /\ LET telegram_user_id == users[idx]
           children == children_needing(kind, telegram_user_id, now, evalOk)
           allowed == \E i \in 1..Len(children) :
                          should_send_notification(log, now, telegram_user_id, kind,
                                                   children[i].child, MinInterval(kind), histOk)
       IN  IF will_send(children, allowed)
           THEN /\ cur' = [user |-> telegram_user_id, infos |-> children,
                           allowed |-> allowed, wake |-> 0, logLen |-> Len(log)]
                /\ pc' = "sending"
                /\ idx' = idx
           ELSE /\ idx' = idx + 1
                /\ UNCHANGED <<cur, pc>>
    /\ UNCHANGED <<now, storeVars, log, kind, users, nextMsg, sent, attempts, passNo, running, peer>>

CheckUser_MarksReminder(evalOk, histOk) ==
    /\ Faulted((IF evalOk THEN 0 ELSE 1) + (IF histOk THEN 0 ELSE 1))
    /\ pc = "loop"
    /\ idx <= Len(users)
    /\ LET telegram_user_id == users[idx]
           children == children_needing(kind, telegram_user_id, now, evalOk)
           allowed == should_send_notification(log, now, telegram_user_id, kind,
                                               NoChild, MinInterval(kind), histOk)
       IN  /\ settings' = [settings EXCEPT ![telegram_user_id].last_reminder_sent =
                               <<[timestamp |-> now,
                                  child_ids |-> {children[i].child : i \in 1..Len(children)}]>>]
           /\ IF will_send(children, allowed)
              THEN /\ cur' = [user |-> telegram_user_id, infos |-> children,
                              allowed |-> allowed, wake |-> 0, logLen |-> Len(log)]
                   /\ pc' = "sending"
                   /\ idx' = idx
              ELSE /\ idx' = idx + 1
                   /\ UNCHANGED <<cur, pc>>
    /\ UNCHANGED <<now, prefs, closedEnds, openSess, envOps, log, kind, users, nextMsg, sent,
                   attempts, passNo, running, peer>>

\* One iteration of "for user in users_for_notifications", up to the await of
\* bot.send_message inside send_sleep_reminder / send_bedtime_alert.
CheckUser(evalOk, histOk) ==
    /\ Faulted((IF evalOk THEN 0 ELSE 1) + (IF histOk THEN 0 ELSE 1))
    /\ pc = "loop"
    /\ idx <= Len(users)
    /\ LET telegram_user_id == users[idx]
           children == children_needing(kind, telegram_user_id, now, evalOk)
           allowed == should_send_notification(log, now, telegram_user_id, kind,
                                               NoChild, MinInterval(kind), histOk)
       IN  IF will_send(children, allowed)
           THEN /\ cur' = [user |-> telegram_user_id, infos |-> children,
                           allowed |-> allowed, wake |-> 0, logLen |-> Len(log)]
                /\ pc' = "sending"
                /\ idx' = idx
           ELSE /\ idx' = idx + 1
                /\ UNCHANGED <<cur, pc>>
    /\ UNCHANGED <<now, storeVars, log, kind, users, nextMsg, sent, attempts, passNo, running, peer>>

StartBedtimeAlerts_Skipped(storeOk) ==
    /\ Faulted(IF storeOk THEN 0 ELSE 1)
    /\ pc = "loop"
    /\ idx > Len(users)
    /\ kind = SLEEP_REMINDERS
    /\ kind' = BEDTIME_ALERTS
    /\ users' = IF users = <<>> THEN <<>>
                ELSE get_users_for_notification_type(BEDTIME_ALERTS, storeOk)
    /\ idx' = 1
    /\ UNCHANGED <<now, storeVars, log, pc, cur, nextMsg, sent, attempts, passNo, running, peer>>

\* check_and_send_reminders returned: check_and_send_bedtime_alerts starts.
StartBedtimeAlerts(storeOk) ==
    /\ Faulted(IF storeOk THEN 0 ELSE 1)
    /\ pc = "loop"
    /\ idx > Len(users)
    /\ kind = SLEEP_REMINDERS
    /\ kind' = BEDTIME_ALERTS
    /\ users' = get_users_for_notification_type(BEDTIME_ALERTS, storeOk)
    /\ idx' = 1
    /\ UNCHANGED <<now, storeVars, log, pc, cur, nextMsg, sent, attempts, passNo, running, peer>>

\* check_all_notifications returned: the scheduler is idle until the next tick.
PassDone ==
    /\ pc = "loop"
    /\ idx > Len(users)
    /\ kind = BEDTIME_ALERTS
    /\ pc' = "idle"
    /\ kind' = SLEEP_REMINDERS
    /\ users' = <<>>
    /\ idx' = 1
    /\ running' = running - 1
    /\ UNCHANGED <<faults, now, storeVars, log, cur, nextMsg, sent, attempts, passNo, peer>>

\* ------------------------------------------------------ delivery pipeline
\* The text of a bedtime alert, child by child: "It's bedtime for ..." /
\* "(now)" when minutes_until_bedtime is 0, "... in N minutes" / "(Nmin)"
\* otherwise.
bedtime_alert_text(children_info) ==
    [i \in 1..Len(children_info) |->
        [child |-> children_info[i].child,
         wording |-> IF children_info[i].minutes_until_bedtime = 0 THEN "now" ELSE "minutes",
         minutes |-> children_info[i].minutes_until_bedtime]]

message_text(k, children_info) ==
    IF k = BEDTIME_ALERTS THEN bedtime_alert_text(children_info) ELSE <<>>

AttemptsOf(u, k) == SelectSeq(attempts, LAMBDA a : a.user = u /\ a.kind = k)

AllChildren(infos) == {infos[i].child : i \in 1..Len(infos)}

ChildIds(infos) == [i \in 1..Len(infos) |-> infos[i].child]

attempt(outcome, d) ==
    [user |-> cur.user, kind |-> kind, at |-> now, outcome |-> outcome, retry_after |-> d]

\* bot.send_message returned a message: one history row per child, then the
\* 0.5 s pause of the pass. accepted: the children whose insert the store takes.
SendAccepted(accepted) ==
    /\ Faulted(Cardinality(AllChildren(cur.infos) \ accepted))
    /\ pc = "sending"
    /\ log' = log_notifications_sent(log, cur.user, kind, cur.infos, nextMsg, now, accepted)
    /\ sent' = Append(sent, [msg |-> nextMsg, user |-> cur.user, kind |-> kind,
                             children |-> ChildIds(cur.infos), at |-> now,
                             pass |-> passNo, inst |-> 1,
                             logLen |-> cur.logLen, row |-> Len(log),
                             text |-> message_text(kind, cur.infos)])
    /\ nextMsg' = nextMsg + 1
    /\ attempts' = Append(attempts, attempt("ok", 0))
    /\ pc' = "throttle"
    /\ UNCHANGED <<now, storeVars, kind, users, idx, cur, passNo, running, peer>>

asyncio_sleep_NoWait(t, delay) == t

\* await asyncio.sleep(delay) started at t returns no earlier than t + delay.
asyncio_sleep(t, delay) == t + delay

\* bot.send_message raised TelegramRetryAfter(retry_after = d).
SendRetryAfter(d) ==
    /\ pc = "sending"
    /\ Len(AttemptsOf(cur.user, kind)) < MaxAttempts
    /\ asyncio_sleep(now, d) <= MaxTime
    /\ attempts' = Append(attempts, attempt("retry_after", d))
    /\ cur' = [cur EXCEPT !.wake = asyncio_sleep(now, d)]
    /\ pc' = "backoff"
    /\ UNCHANGED <<faults, now, storeVars, log, kind, users, idx, nextMsg, sent, passNo, running, peer>>

\* The trigger's fire time comes while the pass waits out a rate limit: the
\* scheduler starts another run of the job only if can_submit allows it,
\* otherwise the run is skipped.
TickWhileRunning ==
    /\ pc = "backoff"
    /\ next_fire_time(now) <= cur.wake
    /\ now' = next_fire_time(now)
    /\ running' = IF can_submit(running) THEN running + 1 ELSE running
    /\ UNCHANGED <<faults, storeVars, log, pc, kind, users, idx, cur, nextMsg, sent,
                   attempts, passNo, peer>>

RetryWakes_Reevaluates ==
    /\ pc = "backoff"
    /\ cur.wake <= next_fire_time(now)
    /\ now' = IF cur.wake > now THEN cur.wake ELSE now
    /\ LET children == IF cur.user \in Range(get_users_for_notification_type(kind, TRUE))
                       THEN children_needing(kind, cur.user, now', TRUE) ELSE <<>>
       IN  /\ cur' = [cur EXCEPT !.infos = children]
           /\ pc' = IF children # <<>> THEN "sending" ELSE "throttle"
    /\ UNCHANGED <<faults, storeVars, log, kind, users, idx, nextMsg, sent, attempts, passNo,
                   running, peer>>

\* asyncio.sleep(e.retry_after) returned: the handler calls itself with the
\* same children_info and awaits bot.send_message again.
RetryWakes ==
    /\ pc = "backoff"
    /\ cur.wake <= next_fire_time(now)
    /\ now' = IF cur.wake > now THEN cur.wake ELSE now
    /\ pc' = "sending"
    /\ UNCHANGED <<faults, storeVars, log, kind, users, idx, cur, nextMsg, sent, attempts, passNo, running, peer>>

SendFails_Retry(f) ==
    /\ pc = "sending"
    /\ attempts' = Append(attempts, attempt(f, 0))
    /\ pc' = "sending"
    /\ Len(attempts) < MaxAttempts
    /\ UNCHANGED <<faults, now, storeVars, log, kind, users, idx, cur, nextMsg, sent, passNo, running, peer>>

SendFails_AbortsPass(f) ==
    /\ pc = "sending"
    /\ attempts' = Append(attempts, attempt(f, 0))
    /\ pc' = "throttle"
    /\ idx' = Len(users)
    /\ UNCHANGED <<faults, now, storeVars, log, kind, users, cur, nextMsg, sent, passNo, running, peer>>

\* bot.send_message raised TelegramBadRequest or another exception: the
\* handler logs to the logger and returns.
SendFails(f) ==
    /\ pc = "sending"
    /\ attempts' = Append(attempts, attempt(f, 0))
    /\ pc' = "throttle"
    /\ UNCHANGED <<faults, now, storeVars, log, kind, users, idx, cur, nextMsg, sent, passNo, running, peer>>

ThrottleDone_SkipsUser ==
    /\ pc = "throttle"
    /\ idx' = idx + 2
    /\ cur' = NoDelivery
    /\ attempts' = <<>>
    /\ pc' = "loop"
    /\ UNCHANGED <<faults, now, storeVars, log, kind, users, nextMsg, sent, passNo, running, peer>>

\* await asyncio.sleep(0.5) returned: the loop goes on to the next user.
ThrottleDone ==
    /\ pc = "throttle"
    /\ idx' = idx + 1
    /\ cur' = NoDelivery
    /\ attempts' = <<>>
    /\ pc' = "loop"
    /\ UNCHANGED <<faults, now, storeVars, log, kind, users, nextMsg, sent, passNo, running, peer>>

\* ------------------------------------------------------------ environment
\* The web app opens a sleep session of child c (end_time null).
StartSleep(c) ==
    /\ ~openSess[c]
    /\ envOps < MaxEnvOps
    /\ openSess' = [openSess EXCEPT ![c] = TRUE]
    /\ envOps' = envOps + 1
    /\ UNCHANGED <<now, prefs, settings, closedEnds, faults, log, passVars, nextMsg, sent, attempts>>

\* The web app closes the open session of child c at the current time.
EndSleep(c) ==
    /\ openSess[c]
    /\ openSess' = [openSess EXCEPT ![c] = FALSE]
    /\ closedEnds' = [closedEnds EXCEPT ![c] = @ \cup {now}]
    /\ UNCHANGED <<now, prefs, settings, envOps, faults, log, passVars, nextMsg, sent, attempts>>

\* upsert of the (user, notification_type) row.
set_notification_preference(u, k, enabled) ==
    /\ pref_row(u, k, enabled) \notin prefs
    /\ prefs' = upsert(prefs, pref_row(u, k, enabled))
    /\ envOps' = envOps + 1
    /\ UNCHANGED <<now, settings, closedEnds, openSess, faults, log, passVars, nextMsg, sent, attempts>>

\* Writes of the users reach the store between two passes or while a pass
\* waits out a rate limit.
EnvStartSleep == pc \in {"idle", "backoff"} /\ \E c \in ChildSet : StartSleep(c)
EnvEndSleep == pc \in {"idle", "backoff"} /\ \E c \in ChildSet : EndSleep(c)
EnvSetPreference ==
    /\ pc \in {"idle", "backoff"}
    /\ envOps < MaxEnvOps
    /\ \E u \in UserSet, k \in Kinds, e \in BOOLEAN : set_notification_preference(u, k, e)

Environment == EnvStartSleep \/ EnvEndSleep \/ EnvSetPreference

\* The store answers every call.
Next ==
    \/ TickFires(TRUE)
    \/ CheckUser(TRUE, TRUE)
    \/ StartBedtimeAlerts(TRUE)
    \/ PassDone
    \/ SendAccepted(AllChildren(cur.infos))
    \/ \E d \in RetryAfters : SendRetryAfter(d)
    \/ TickWhileRunning
    \/ RetryWakes
    \/ \E f \in Failures : SendFails(f)
    \/ ThrottleDone
    \/ Environment

Spec == Init /\ [][Next]_vars

\* Any store call may fail.
FaultNext ==
    \/ \E ok \in BOOLEAN : TickFires(ok)
    \/ \E evalOk \in BOOLEAN, histOk \in BOOLEAN : CheckUser(evalOk, histOk)
    \/ \E ok \in BOOLEAN : StartBedtimeAlerts(ok)
    \/ PassDone
    \/ \E accepted \in SUBSET AllChildren(cur.infos) : SendAccepted(accepted)
    \/ \E d \in RetryAfters : SendRetryAfter(d)
    \/ TickWhileRunning
    \/ RetryWakes
    \/ \E f \in Failures : SendFails(f)
    \/ ThrottleDone
    \/ Environment

FaultSpec == Init /\ [][FaultNext]_vars

\* ------------------------------------------- settings and preferences
\* current_settings.update(settings); users.update({'settings': current_settings}):
\* the keys of changes replace those of the user's settings, the others stay.
update_user_settings(all_settings, u, changes) ==
    [all_settings EXCEPT ![u] =
        [key \in DOMAIN @ |-> IF key \in DOMAIN changes THEN changes[key] ELSE @[key]]]

\* A handler of the bot runs between two passes or while a pass awaits the
\* notifier or its pause.
HandlerMayRun == pc \in {"idle", "sending", "throttle"}

\* The "toggle_notifications" button of the settings menu, pressed between two passes.
toggle_notifications(u) ==
    /\ pc = "idle"
    /\ envOps < MaxUserOps
    /\ LET current_setting == settings[u].notifications_enabled
       IN  settings' = update_user_settings(settings, u,
                                            [notifications_enabled |-> ~current_setting])
    /\ envOps' = envOps + 1
    /\ UNCHANGED <<now, prefs, closedEnds, openSess, faults, log, passVars, nextMsg, sent,
                   attempts>>

\* The "toggle_sleep_reminders" button of the settings menu, pressed between two passes.
toggle_sleep_reminders(u) ==
    /\ pc = "idle"
    /\ envOps < MaxUserOps
    /\ LET current_setting == settings[u].sleep_reminders
       IN  settings' = update_user_settings(settings, u, [sleep_reminders |-> ~current_setting])
    /\ envOps' = envOps + 1
    /\ UNCHANGED <<now, prefs, closedEnds, openSess, faults, log, passVars, nextMsg, sent,
                   attempts>>

\* A call of set_notification_preference between two passes.
SetPreference ==
    /\ HandlerMayRun
    /\ envOps < MaxUserOps
    /\ \E u \in UserSet, k \in Kinds, e \in BOOLEAN : set_notification_preference(u, k, e)

\* A call of initialize_user_notifications for user u between two passes.
InitializeNotifications(u) ==
    /\ HandlerMayRun
    /\ envOps < MaxUserOps
    /\ prefs' = initialize_user_notifications(prefs, u)
    /\ envOps' = envOps + 1
    /\ UNCHANGED <<now, settings, closedEnds, openSess, faults, log, passVars, nextMsg, sent,
                   attempts>>

\* A call of migrate_user_settings for user u between two passes.
MigrateSettings(u) ==
    /\ HandlerMayRun
    /\ envOps < MaxUserOps
    /\ prefs' = migrate_user_settings(prefs, u, settings[u])
    /\ envOps' = envOps + 1
    /\ UNCHANGED <<now, settings, closedEnds, openSess, faults, log, passVars, nextMsg, sent,
                   attempts>>

\* register_user(user_id, ...): the users row is upserted with the default
\* settings, then initialize_user_notifications runs; when the upsert raises
\* (upsertOk false) the except returns and nothing is written.
register_user(u, upsertOk) ==
    /\ HandlerMayRun
    /\ envOps < MaxUserOps
    /\ envOps' = envOps + 1
    /\ IF upsertOk
       THEN /\ settings' = [settings EXCEPT ![u] = RegisteredSettings]
            /\ prefs' = initialize_user_notifications(prefs, u)
       ELSE UNCHANGED <<settings, prefs>>
    /\ UNCHANGED <<now, closedEnds, openSess, faults, log, passVars, nextMsg, sent, attempts>>

\* The passes (the store answers the calls of the pass, the notifier accepts
\* every message) with preference calls and registrations in between.
RegisterNext ==
    \/ TickFires(TRUE)
    \/ CheckUser(TRUE, TRUE)
    \/ StartBedtimeAlerts(TRUE)
    \/ PassDone
    \/ SendAccepted(AllChildren(cur.infos))
    \/ ThrottleDone
    \/ SetPreference
    \/ \E u \in UserSet : register_user(u, TRUE)
    \/ \E u \in UserSet : register_user(u, FALSE)

RegisterSpec == Init /\ [][RegisterNext]_vars

\* The passes with the settings menu and the preference calls in between
\* (the store answers every call, the notifier accepts every message and the
\* sessions do not change).
SettingsNext ==
    \/ TickFires(TRUE)
    \/ CheckUser(TRUE, TRUE)
    \/ StartBedtimeAlerts(TRUE)
    \/ PassDone
    \/ SendAccepted(AllChildren(cur.infos))
    \/ ThrottleDone
    \/ \E u \in UserSet : toggle_notifications(u)
    \/ \E u \in UserSet : toggle_sleep_reminders(u)
    \/ SetPreference
    \/ \E u \in UserSet : InitializeNotifications(u)
    \/ \E u \in UserSet : MigrateSettings(u)

SettingsSpec == Init /\ [][SettingsNext]_vars

\* ------------------------------------------------------ the test reminder
\* send_test_reminder(user_id), called between two passes: the evaluator is
\* read and, when it reports a child, send_sleep_reminder is awaited with the
\* result; neither should_send_notification nor the preferences are read
\* (allowed records that nothing refused the delivery).
send_test_reminder(u) ==
    /\ pc = "idle"
    /\ envOps < MaxUserOps
    /\ envOps' = envOps + 1
    /\ LET children_needing_reminders == get_children_needing_reminders(u, now, TRUE)
       IN  IF children_needing_reminders # <<>>
           THEN /\ cur' = [user |-> u, infos |-> children_needing_reminders,
                           allowed |-> TRUE, wake |-> 0, logLen |-> Len(log)]
                /\ pc' = "test_sending"
           ELSE UNCHANGED <<cur, pc>>
    /\ UNCHANGED <<now, prefs, settings, closedEnds, openSess, faults, log, kind, users, idx,
                   nextMsg, sent, attempts, passNo, running, peer>>

\* bot.send_message returned a message: one history row per child, and the
\* handler returns. A message sent outside a pass carries pass number 0.
TestSendAccepted ==
    /\ pc = "test_sending"
    /\ log' = log_notifications_sent(log, cur.user, SLEEP_REMINDERS, cur.infos, nextMsg, now,
                                     AllChildren(cur.infos))
    /\ sent' = Append(sent, [msg |-> nextMsg, user |-> cur.user, kind |-> SLEEP_REMINDERS,
                             children |-> ChildIds(cur.infos), at |-> now,
                             pass |-> 0, inst |-> 1,
                             logLen |-> cur.logLen, row |-> Len(log),
                             text |-> message_text(SLEEP_REMINDERS, cur.infos)])
    /\ nextMsg' = nextMsg + 1
    /\ attempts' = <<>>
    /\ cur' = NoDelivery
    /\ pc' = "idle"
    /\ UNCHANGED <<faults, now, storeVars, kind, users, idx, passNo, running, peer>>

\* bot.send_message raised TelegramRetryAfter(retry_after = d): the handler
\* sleeps d seconds and calls itself with the same children_info (the waits
\* of the model end before the next fire time of the job).
TestSendRetryAfter(d) ==
    /\ pc = "test_sending"
    /\ Len(attempts) < MaxAttempts
    /\ asyncio_sleep(now, d) < next_fire_time(now)
    /\ attempts' = Append(attempts, attempt("retry_after", d))
    /\ now' = asyncio_sleep(now, d)
    /\ UNCHANGED <<faults, storeVars, log, pc, kind, users, idx, cur, nextMsg, sent, passNo,
                   running, peer>>

\* bot.send_message raised TelegramBadRequest or another exception: nothing
\* is written and the handler returns.
TestSendFails(f) ==
    /\ pc = "test_sending"
    /\ attempts' = <<>>
    /\ cur' = NoDelivery
    /\ pc' = "idle"
    /\ UNCHANGED <<faults, now, storeVars, log, kind, users, idx, nextMsg, sent, passNo,
                   running, peer>>

\* The passes (the store answers every call, the notifier accepts every
\* scheduled message) with the users' writes and test reminders in between.
TestNext ==
    \/ TickFires(TRUE)
    \/ CheckUser(TRUE, TRUE)
    \/ StartBedtimeAlerts(TRUE)
    \/ PassDone
    \/ SendAccepted(AllChildren(cur.infos))
    \/ ThrottleDone
    \/ Environment
    \/ \E u \in UserSet : send_test_reminder(u)
    \/ TestSendAccepted
    \/ \E d \in RetryAfters : TestSendRetryAfter(d)
    \/ \E f \in Failures : TestSendFails(f)

TestSpec == Init /\ [][TestNext]_vars

\* ------------------------------------------------ a long run of passes
\* The scheduler keeps firing over MaxLiveTicks ticks; the store answers
\* every call, the preferences stay as they are, the web app may open a
\* session, and the notifier refuses messages (failure or rate limit) only
\* during the first MaxFailedPasses passes.
LiveTickFires == TickFiresUpTo(TRUE, MaxLiveTicks)

LiveSendFails == passNo <= MaxFailedPasses /\ \E f \in Failures : SendFails(f)

LiveSendRetryAfter == passNo <= MaxFailedPasses /\ \E d \in RetryAfters : SendRetryAfter(d)

LiveNext ==
    \/ LiveTickFires
    \/ CheckUser(TRUE, TRUE)
    \/ StartBedtimeAlerts(TRUE)
    \/ PassDone
    \/ SendAccepted(AllChildren(cur.infos))
    \/ LiveSendRetryAfter
    \/ TickWhileRunning
    \/ RetryWakes
    \/ LiveSendFails
    \/ ThrottleDone
    \/ EnvStartSleep

\* The event loop runs every coroutine that can run, and the scheduler fires
\* every tick.
LiveSpec == Init /\ [][LiveNext]_vars /\ WF_vars(LiveNext)

\* ------------------------------------------------- a second instance
\* The pass of a second NotificationService process on the same store (its
\* own trigger fires at the current instant; the notifier accepts what it
\* sends). Its steps are the steps of the pass above, between the same awaits.
PeerTickFires ==
    /\ peer.pc = "idle"
    /\ peer.passNo < MaxPeerPasses
    /\ passNo >= 1
    /\ peer' = [peer EXCEPT !.pc = "loop", !.kind = SLEEP_REMINDERS, !.idx = 1,
                            !.users = get_users_for_notification_type(SLEEP_REMINDERS, TRUE),
                            !.passNo = @ + 1]
    /\ UNCHANGED <<now, storeVars, faults, log, pc, kind, users, idx, cur, nextMsg, sent,
                   attempts, passNo, running>>

PeerCheckUser ==
    /\ peer.pc = "loop"
    /\ peer.idx <= Len(peer.users)
    /\ LET telegram_user_id == peer.users[peer.idx]
           children == children_needing(peer.kind, telegram_user_id, now, TRUE)
           allowed == should_send_notification(log, now, telegram_user_id, peer.kind,
                                               NoChild, MinInterval(peer.kind), TRUE)
       IN  IF will_send(children, allowed)
           THEN peer' = [peer EXCEPT !.pc = "sending", !.infos = children,
                                     !.logLen = Len(log)]
           ELSE peer' = [peer EXCEPT !.idx = @ + 1]
    /\ UNCHANGED <<now, storeVars, faults, log, pc, kind, users, idx, cur, nextMsg, sent,
                   attempts, passNo, running>>

PeerSendAccepted ==
    /\ peer.pc = "sending"
    /\ LET u == peer.users[peer.idx] IN
       /\ log' = log_notifications_sent(log, u, peer.kind, peer.infos, nextMsg, now,
                                        AllChildren(peer.infos))
       /\ sent' = Append(sent, [msg |-> nextMsg, user |-> u, kind |-> peer.kind,
                                children |-> ChildIds(peer.infos), at |-> now,
                                pass |-> peer.passNo, inst |-> 2,
                                logLen |-> peer.logLen, row |-> Len(log),
                                text |-> message_text(peer.kind, peer.infos)])
    /\ nextMsg' = nextMsg + 1
    /\ peer' = [peer EXCEPT !.pc = "loop", !.idx = @ + 1, !.infos = <<>>]
    /\ UNCHANGED <<now, storeVars, faults, pc, kind, users, idx, cur, attempts, passNo,
                   running>>

PeerPhaseDone ==
    /\ peer.pc = "loop"
    /\ peer.idx > Len(peer.users)
    /\ peer' = IF peer.kind = SLEEP_REMINDERS
               THEN [peer EXCEPT !.kind = BEDTIME_ALERTS, !.idx = 1,
                                 !.users = get_users_for_notification_type(BEDTIME_ALERTS, TRUE)]
               ELSE [peer EXCEPT !.pc = "idle", !.kind = SLEEP_REMINDERS, !.idx = 1,
                                 !.users = <<>>]
    /\ UNCHANGED <<now, storeVars, faults, log, pc, kind, users, idx, cur, nextMsg, sent,
                   attempts, passNo, running>>

\* Two instances on one store (the store answers every call and the users
\* write nothing meanwhile).
RaceNext ==
    \/ TickFires(TRUE)
    \/ CheckUser(TRUE, TRUE)
    \/ StartBedtimeAlerts(TRUE)
    \/ PassDone
    \/ SendAccepted(AllChildren(cur.infos))
    \/ \E d \in RetryAfters : SendRetryAfter(d)
    \/ TickWhileRunning
    \/ RetryWakes
    \/ \E f \in Failures : SendFails(f)
    \/ ThrottleDone
    \/ PeerTickFires
    \/ PeerCheckUser
    \/ PeerSendAccepted
    \/ PeerPhaseDone

RaceSpec == Init /\ [][RaceNext]_vars

\* ============================================================== claims
Last(q) == q[Len(q)]

Needs(k, c, t) ==
    /\ age_months(c) # <<>>
    /\ IF k = SLEEP_REMINDERS THEN needs_reminder(c, t) ELSE needs_bedtime_alert(c, t)

SuccessfulAt(lg, u, k) ==
    {lg[i].sent_at : i \in {j \in 1..Len(lg) : lg[j].user = u /\ lg[j].kind = k /\ lg[j].success}}

\* The messages the notifier accepted in the current pass for the user and
\* kind of the delivery in progress.
MessagesOfDelivery ==
    {i \in 1..Len(sent) : sent[i].pass = passNo /\ sent[i].user = cur.user /\ sent[i].kind = kind}

EntriesOf(lg, msg) == {i \in 1..Len(lg) : lg[i].msg = msg}

\* C1: two successful history rows of one (user, kind, child) that belong to
\* different messages are at least the kind's minimum interval apart
\* (60 minutes for sleep reminders, 30 for bedtime alerts).
C1_MinIntervalBetweenSends ==
    \A i, j \in 1..Len(log) :
        (/\ i < j
         /\ log[i].user = log[j].user /\ log[i].kind = log[j].kind
         /\ log[i].child = log[j].child
         /\ log[i].success /\ log[j].success
         /\ log[i].msg # log[j].msg)
        => log[j].sent_at - log[i].sent_at >= MinInterval(log[i].kind) * 60

\* C2: a message of kind K goes to user U only if, in the same pass, U was in
\* the list the store returned for K (users enabled for K when it was read),
\* a child of U satisfied the condition for K and should_send returned true;
\* history rows are written only in the step in which the notifier accepts
\* the message, before the loop moves to the next user.
C2_Step ==
    /\ (users' # users) =>
           \A i \in 1..Len(users') : pref_row(users'[i], kind', TRUE) \in prefs
    /\ (pc = "loop" /\ pc' = "sending") =>
           /\ cur'.user = users[idx]
           /\ \E c \in Range(ChildrenOf(cur'.user)) : Needs(kind, c, now)
           /\ cur'.allowed
           /\ cur'.allowed = should_send_notification(log, now, cur'.user, kind, NoChild,
                                                      MinInterval(kind), TRUE)
    /\ (sent' # sent) =>
           /\ pc = "sending" /\ cur.allowed /\ cur.infos # <<>>
           /\ cur.user \in Range(users)
           /\ sent' = Append(sent, Last(sent'))
           /\ Last(sent').user = cur.user /\ Last(sent').kind = kind
           /\ Last(sent').pass = passNo
    /\ (log' # log) =>
           /\ sent' # sent /\ pc' = "throttle" /\ idx' = idx
           /\ Len(log') > Len(log) /\ SubSeq(log', 1, Len(log)) = log
           /\ \A i \in (Len(log) + 1)..Len(log') :
                  log'[i].msg = Last(sent').msg /\ log'[i].user = cur.user

C2_DeliveredOnlyIfEligible == [][C2_Step]_vars

C2_Witness ==
    /\ pc = "throttle" /\ attempts # <<>> /\ Last(attempts).outcome = "ok"
    /\ Len(log) > cur.logLen
    /\ \E u \in UserSet : pref_row(u, kind, FALSE) \in prefs

\* C3: when n >= 2 children of a user satisfy the condition, a delivery the
\* notifier accepts at the first attempt is exactly one message for all n
\* children, with exactly n successful history rows, one per child, all
\* carrying that message's id; no (pass, user, kind) has two messages.
C3_Step ==
    /\ (pc = "loop" /\ pc' = "sending") =>
           AllChildren(cur'.infos) =
               {c \in Range(ChildrenOf(cur'.user)) : Needs(kind, c, now)}
    /\ (pc = "sending" /\ sent' # sent /\ attempts = <<>> /\ Len(cur.infos) >= 2) =>
           LET m == Last(sent') IN
           /\ Len(sent') = Len(sent) + 1
           /\ Range(m.children) = AllChildren(cur.infos)
           /\ Len(log') = Len(log) + Len(cur.infos)
           /\ \A c \in AllChildren(cur.infos) :
                  Cardinality({i \in EntriesOf(log', m.msg) :
                                   log'[i].child = c /\ log'[i].success}) = 1
           /\ Cardinality(EntriesOf(log', m.msg)) = Len(cur.infos)
    /\ \A i, j \in 1..Len(sent') :
           (sent'[i].pass = sent'[j].pass /\ sent'[i].user = sent'[j].user
                /\ sent'[i].kind = sent'[j].kind) => i = j

C3_OneCombinedMessage == [][C3_Step]_vars

C3_Witness ==
    /\ pc = "throttle" /\ Len(cur.infos) = 2
    /\ Len(attempts) = 1 /\ attempts[1].outcome = "ok"
    /\ Cardinality(EntriesOf(log, Last(sent).msg)) = 2

\* C4: after a rate-limit signal with retry duration d the next attempt of
\* the delivery comes no earlier than d later; every attempt but the last of
\* a delivery was rate-limited (one retry per signal); when the retry is
\* accepted there is exactly one message and exactly one successful history
\* row per child, and nothing else was appended.
C4_RetryOnceAfterWait ==
    /\ (pc = "sending" /\ attempts # <<>>) =>
           /\ Last(attempts).outcome = "retry_after"
           /\ now >= Last(attempts).at + Last(attempts).retry_after
    /\ (pc = "backoff") =>
           /\ attempts # <<>> /\ Last(attempts).outcome = "retry_after"
           /\ cur.wake >= Last(attempts).at + Last(attempts).retry_after
    /\ \A i \in 1..Len(attempts) :
           /\ attempts[i].user = cur.user /\ attempts[i].kind = kind
           /\ (i < Len(attempts) => attempts[i].outcome = "retry_after")
           /\ (i < Len(attempts) =>
                   attempts[i + 1].at >= attempts[i].at + attempts[i].retry_after)
    /\ (pc = "throttle" /\ Len(attempts) >= 2 /\ Last(attempts).outcome = "ok") =>
           /\ Cardinality(MessagesOfDelivery) = 1
           /\ Len(log) = cur.logLen + Len(cur.infos)
           /\ \A c \in AllChildren(cur.infos) :
                  Cardinality({i \in (cur.logLen + 1)..Len(log) :
                                   log[i].child = c /\ log[i].success
                                   /\ log[i].msg = Last(sent).msg}) = 1

C4_Witness ==
    /\ pc = "throttle" /\ Len(attempts) = 2
    /\ attempts[1].outcome = "retry_after" /\ attempts[2].outcome = "ok"
    /\ attempts[2].at >= attempts[1].at + attempts[1].retry_after
    /\ Len(log) = cur.logLen + Len(cur.infos)

\* C5: the send attempts of one delivery are capped: the handler stops
\* retrying while the notifier still answers with a rate-limit signal (the
\* notifier of the model rate-limits a delivery MaxAttempts times).
C5_RetriesCapped == Len(attempts) <= MaxAttempts

\* C6: every delivery attempt that has ended left a history row: a row with
\* success = true for an accepted message, a row with success = false for a
\* failed send.
C6_EveryAttemptLogged ==
    (pc = "throttle") =>
        \E i \in (cur.logLen + 1)..Len(log) :
            /\ log[i].user = cur.user /\ log[i].kind = kind
            /\ log[i].success = (Last(attempts).outcome = "ok")

\* C7: a send that fails with recipient-unreachable or another error that is
\* not a rate limit ends the delivery: the step appends no history row,
\* records no message and leaves the preferences alone, the loop then moves
\* to the next user, and a user is listed once per phase, so the (user, kind)
\* gets no further attempt in the pass.
C7_Step ==
    /\ (pc = "sending" /\ attempts' # attempts /\ Last(attempts').outcome \in Failures) =>
           /\ pc' = "throttle" /\ log' = log /\ sent' = sent /\ prefs' = prefs
           /\ idx' = idx /\ users' = users
           /\ (attempts = <<>> => Len(attempts') = 1)
    /\ (pc = "throttle" /\ pc' # "throttle") =>
           pc' = "loop" /\ idx' = idx + 1 /\ log' = log /\ sent' = sent
    /\ \A i, j \in 1..Len(users) : users[i] = users[j] => i = j
    /\ (pc = "loop" /\ pc' = "sending") => attempts = <<>>

C8_SendsLoggedBeforeNextRead ==
    \A i \in 1..Len(sent) :
        \A c \in Range(sent[i].children) :
            \E j \in 1..Len(log) :
                /\ log[j].msg = sent[i].msg /\ log[j].child = c /\ log[j].success
                /\ log[j].user = sent[i].user /\ log[j].kind = sent[i].kind

\* The history is the initial one or has just been written: every value the
\* history takes is its value in such a state.
HistoryWritten ==
    \/ passNo = 0
    \/ pc = "throttle" /\ Last(attempts).outcome = "ok"

\* The scheduler is between two passes and no message was accepted so far:
\* every value the sessions take is their value in such a state (the writes
\* of the users do not depend on the sends).
SessionsWritten == pc = "idle" /\ sent = <<>>

\* Elapsed times around the minimum interval of kind k, in seconds.
Elapsed(k) ==
    {0, 1, 5, 600, MinInterval(k) * 60 - 1, MinInterval(k) * 60,
     MinInterval(k) * 60 + 1, MinInterval(k) * 120}

\* C9: with T the time of the most recent successful history row of (U, K),
\* should_send queried at T + d is false for d < min_interval and true for
\* d >= min_interval.
C9_CooldownBoundary ==
    \A u \in UserSet, k \in Kinds :
        (HistoryWritten /\ SuccessfulAt(log, u, k) # {}) =>
            \A d \in Elapsed(k) :
                should_send_notification(log, SetMax(SuccessfulAt(log, u, k)) + d, u, k,
                                         NoChild, MinInterval(k), TRUE)
                    = (d >= MinInterval(k) * 60)

C9_Witness ==
    /\ pc = "sending" /\ attempts = <<>> /\ cur.allowed
    /\ SuccessfulAt(log, cur.user, kind) # {}
    /\ now = SetMax(SuccessfulAt(log, cur.user, kind)) + MinInterval(kind) * 60

\* C10 as stated: a pass sends only when the time elapsed since the most
\* recent successful row exceeds the interval (an elapsed time equal to the
\* interval is refused by should_send).
C10_EqualIntervalBlocked ==
    (pc = "sending" /\ attempts = <<>> /\ SuccessfulAt(log, cur.user, kind) # {}) =>
        now - SetMax(SuccessfulAt(log, cur.user, kind)) > MinInterval(kind) * 60

\* C10 amended: should_send allows a send only if the elapsed time is at
\* least the interval, and it does allow it when the elapsed time equals the
\* interval exactly.
C10_AllowedFromIntervalOn ==
    \A u \in UserSet, k \in Kinds :
        (HistoryWritten /\ SuccessfulAt(log, u, k) # {}) =>
            LET T == SetMax(SuccessfulAt(log, u, k)) IN
            /\ \A d \in Elapsed(k) :
                   should_send_notification(log, T + d, u, k, NoChild, MinInterval(k), TRUE)
                       => d >= MinInterval(k) * 60
            /\ should_send_notification(log, T + MinInterval(k) * 60, u, k, NoChild,
                                        MinInterval(k), TRUE)

C10_Witness ==
    \E i, j \in 1..Len(log) :
        /\ i < j /\ log[i].user = log[j].user /\ log[i].kind = log[j].kind
        /\ log[i].success /\ log[j].success
        /\ log[j].sent_at - log[i].sent_at = MinInterval(log[i].kind) * 60

\* n history rows of (u, k) written after time T, one per second: failed
\* sends, or successful sends about a child other than the one asked for.
PadRows(u, k, c, ok, T, n) ==
    [i \in 1..n |-> [user |-> u, kind |-> k, child |-> c, sent_at |-> T + i,
                     success |-> ok, msg |-> 0]]

\* C11: should_send decides on the most recent successful row of (user, kind),
\* restricted to the child when one is given, and is true when there is none;
\* any number of more recent failed rows, or of more recent rows about other
\* children, leaves the result the same (here: refused, the successful row
\* being MaxPad + 1 seconds old).
C11_DecidesOnLatestSuccessful ==
    \A u \in UserSet, k \in Kinds :
        IF SuccessfulAt(log, u, k) = {}
        THEN should_send_notification(log, now, u, k, NoChild, MinInterval(k), TRUE)
        ELSE LET T == SetMax(SuccessfulAt(log, u, k))
                 c == CHOOSE c \in ChildSet :
                          \E i \in 1..Len(log) : log[i].user = u /\ log[i].kind = k
                              /\ log[i].success /\ log[i].sent_at = T /\ log[i].child = c
             IN  \A n \in 0..MaxPad :
                     /\ ~should_send_notification(log \o PadRows(u, k, c, FALSE, T, n),
                                                  T + MaxPad + 1, u, k, NoChild,
                                                  MinInterval(k), TRUE)
                     /\ ~should_send_notification(log \o PadRows(u, k, "other", TRUE, T, n),
                                                  T + MaxPad + 1, u, k, c,
                                                  MinInterval(k), TRUE)

\* C12: should_send is a pure read. The step of the pass that evaluates it
\* (whatever it returns, a store error included) leaves the history, the
\* preferences and the sessions as they were; and the answer should_send
\* gives for a (user, kind) at a fixed instant changes only in the step in
\* which the notifier accepted a message for that (user, kind) and the
\* caller appended its rows.
C12_Step ==
    /\ (pc = "loop" /\ idx <= Len(users)) =>
           /\ log' = log /\ prefs' = prefs
           /\ closedEnds' = closedEnds /\ openSess' = openSess
           /\ sent' = sent /\ nextMsg' = nextMsg
    /\ \A u \in UserSet, k \in Kinds :
           (should_send_notification(log', now, u, k, NoChild, MinInterval(k), TRUE)
                # should_send_notification(log, now, u, k, NoChild, MinInterval(k), TRUE))
           => /\ pc = "sending" /\ sent' # sent
              /\ Last(sent').user = u /\ Last(sent').kind = k
              /\ Len(log') > Len(log)

C12_ShouldSendIsPureRead == [][C12_Step]_vars

\* should_send was evaluated for the user in delivery, hit a store error and
\* answered true inside the interval; the history is as it was before.
C12_Witness ==
    /\ pc = "sending" /\ attempts = <<>> /\ cur.allowed
    /\ ~should_send_notification(log, now, cur.user, kind, NoChild, MinInterval(kind), TRUE)
    /\ Len(log) = cur.logLen /\ log # <<>>

\* C13: at most one pass runs at any time: the number of executing runs of
\* the job never exceeds one, it is one exactly while a pass is in progress,
\* and a fire time that comes while a pass is in progress (waiting out a
\* rate limit) starts no second run.
C13_OnePassAtATime ==
    /\ running <= 1
    /\ (running = 1) <=> (pc # "idle")

\* A fire time has passed while the pass was waiting out a rate limit.
C13_Witness ==
    /\ pc = "backoff" /\ running = 1
    /\ attempts # <<>> /\ Last(attempts).at < now
    /\ now = next_fire_time(Last(attempts).at)

\* C14: a failure for one user does not abort the pass for the others. While
\* users of the phase remain, no step ends the phase or leaves the order of
\* the enumeration; a failed send, like a failed store read, only moves the
\* loop on by one user; and the user whose turn it is goes to delivery
\* exactly when its condition holds and the cooldown allows (unless a store
\* call of its own evaluation fails), whatever happened to the users before.
C14_Step ==
    /\ (pc # "idle" /\ idx <= Len(users)) =>
           /\ users' = users /\ kind' = kind /\ passNo' = passNo /\ pc' # "idle"
           /\ idx' \in {idx, idx + 1}
    /\ (pc = "loop" /\ idx <= Len(users) /\ faults' = faults) =>
           LET due == /\ children_needing(kind, users[idx], now, TRUE) # <<>>
                      /\ should_send_notification(log, now, users[idx], kind, NoChild,
                                                  MinInterval(kind), TRUE)
           IN  IF due THEN pc' = "sending" /\ cur'.user = users[idx] /\ idx' = idx
               ELSE pc' = "loop" /\ idx' = idx + 1
    /\ (pc = "loop" /\ idx <= Len(users) /\ faults' # faults) =>
           \/ pc' = "sending" /\ cur'.user = users[idx] /\ idx' = idx
           \/ pc' = "loop" /\ idx' = idx + 1
    /\ (pc = "sending" /\ attempts' # attempts /\ Last(attempts').outcome \in Failures) =>
           pc' = "throttle" /\ idx' = idx
    /\ (pc = "throttle" /\ pc' # "throttle") => pc' = "loop" /\ idx' = idx + 1

C14_FailureDoesNotAbortPass == [][C14_Step]_vars

\* The second user of the phase is in delivery although the first one, whose
\* condition held and whose cooldown allowed, got no message in this pass
\* (its evaluation or its delivery failed).
C14_Witness ==
    /\ pc = "sending" /\ idx = 2 /\ cur.user = users[2] /\ attempts = <<>>
    /\ children_needing(kind, users[1], now, TRUE) # <<>>
    /\ should_send_notification(log, now, users[1], kind, NoChild, MinInterval(kind), TRUE)
    /\ \A i \in 1..Len(sent) :
           ~(sent[i].pass = passNo /\ sent[i].user = users[1] /\ sent[i].kind = kind)

\* C15: a failure of the store while the users of a phase are listed ends
\* that phase with an empty list: nothing is sent or logged, the pass goes on
\* (reminder phase: the bedtime-alert phase starts and lists its users;
\* bedtime-alert phase: the scheduler returns to idle), and from idle the
\* next tick starts a new pass with the reminder phase.
C15_Step ==
    /\ ((pc = "idle" /\ pc' # "idle") \/ kind' # kind) =>
           /\ sent' = sent /\ log' = log
           /\ (faults' # faults => users' = <<>>)
    /\ (pc = "idle" /\ pc' # "idle") =>
           /\ pc' = "loop" /\ kind' = SLEEP_REMINDERS /\ idx' = 1
           /\ passNo' = passNo + 1 /\ running' = 1
           /\ (faults' = faults => users' = enabled_users(Users, SLEEP_REMINDERS))
    /\ (pc = "loop" /\ users = <<>> /\ kind = SLEEP_REMINDERS) =>
           /\ pc' = "loop" /\ kind' = BEDTIME_ALERTS /\ idx' = 1 /\ passNo' = passNo
           /\ sent' = sent /\ log' = log
           /\ (faults' = faults => users' = enabled_users(Users, BEDTIME_ALERTS))
    /\ (pc = "loop" /\ users = <<>> /\ kind = BEDTIME_ALERTS) =>
           /\ pc' = "idle" /\ running' = 0 /\ sent' = sent /\ log' = log

C15_PassLevelFailureContained == [][C15_Step]_vars

\* The listing of the reminder phase failed: the list is empty although
\* users have sleep reminders enabled.
C15_Witness ==
    /\ pc = "loop" /\ kind = SLEEP_REMINDERS /\ users = <<>> /\ idx = 1
    /\ enabled_users(Users, SLEEP_REMINDERS) # <<>>
    /\ faults = 1 /\ running = 1

\* Position of user u in the order in which the store returns the users.
PosInStore(u) == CHOOSE i \in 1..Len(Users) : Users[i] = u

\* C16: within a pass the deliveries are strictly sequential. At most one
\* delivery is in flight and it is the one of users[idx]; between two users
\* none is; the messages of a pass follow the order of the store's list, all
\* sleep reminders before any bedtime alert; when the next user is evaluated
\* every message sent before has all its history rows, and the rows lie in
\* the history in the order of the messages.
C16_Inv ==
    /\ (pc \in {"sending", "backoff", "throttle"}) =>
           idx <= Len(users) /\ cur.user = users[idx] /\ cur.infos # <<>>
    /\ (pc \in {"idle", "loop"}) => cur = NoDelivery /\ attempts = <<>>
    /\ \A i, j \in 1..Len(users) : i < j => PosInStore(users[i]) < PosInStore(users[j])
    /\ \A i, j \in 1..Len(sent) :
           (i < j /\ sent[i].pass = sent[j].pass) =>
               /\ sent[i].kind = BEDTIME_ALERTS => sent[j].kind = BEDTIME_ALERTS
               /\ sent[i].kind = sent[j].kind =>
                      PosInStore(sent[i].user) < PosInStore(sent[j].user)
               /\ sent[i].at <= sent[j].at
    /\ (pc = "loop") =>
           \A i \in 1..Len(sent) :
               Cardinality(EntriesOf(log, sent[i].msg)) = Len(sent[i].children)
    /\ \A i, j \in 1..Len(log) : i < j => log[i].msg <= log[j].msg

C16_Step ==
    /\ (pc = "loop" /\ pc' = "sending") => idx' = idx /\ cur'.user = users[idx]
    /\ (pc = "throttle" /\ pc' = "loop") => idx' = idx + 1 /\ users' = users
    /\ (pc \in {"sending", "backoff"}) =>
           idx' = idx /\ users' = users /\ kind' = kind
    /\ (kind = SLEEP_REMINDERS /\ kind' = BEDTIME_ALERTS) =>
           pc = "loop" /\ idx > Len(users) /\ cur = NoDelivery
    /\ (kind = BEDTIME_ALERTS /\ kind' = SLEEP_REMINDERS) => pc' = "idle"

C16_StrictlySequential == []C16_Inv /\ [][C16_Step]_vars

\* One pass delivered a reminder to each of the two users, in the order of
\* the store, one of them after a rate-limit wait, and then a bedtime alert.
C16_Witness ==
    \E i, j, k \in 1..Len(sent) :
        /\ i < j /\ j < k
        /\ sent[i].pass = sent[j].pass /\ sent[j].pass = sent[k].pass
        /\ sent[i].kind = SLEEP_REMINDERS /\ sent[j].kind = SLEEP_REMINDERS
        /\ sent[i].user = Users[1] /\ sent[j].user = Users[2]
        /\ sent[k].kind = BEDTIME_ALERTS
        /\ sent[i].at < sent[j].at

\* Two messages of one (user, kind) closer together than the minimum interval.
TooClose(i, j) ==
    /\ i < j
    /\ sent[i].user = sent[j].user /\ sent[i].kind = sent[j].kind
    /\ sent[j].at - sent[i].at < MinInterval(sent[i].kind) * 60

\* C17: the cooldown read and the later append are not atomic. With two
\* instances on one store, two messages of one (user, kind) closer together
\* than the minimum interval come only from different instances, and only
\* when the sender of the second read the history before the first was
\* appended; one instance alone never sends such a pair.
C17_DuplicateOnlyAcrossInstances ==
    \A i, j \in 1..Len(sent) :
        TooClose(i, j) =>
            /\ sent[i].inst # sent[j].inst
            /\ sent[j].logLen <= sent[i].row

\* Both instances read the history before either appended, both sent, and
\* the history holds two successful rows of one (user, kind, child) from
\* different messages inside the minimum interval.
C17_Witness ==
    \E i, j \in 1..Len(sent) :
        /\ TooClose(i, j) /\ sent[i].inst # sent[j].inst
        /\ sent[i].logLen <= sent[j].row /\ sent[j].logLen <= sent[i].row
        /\ \E a, b \in 1..Len(log) :
               /\ log[a].msg = sent[i].msg /\ log[b].msg = sent[j].msg
               /\ log[a].child = log[b].child /\ log[a].success /\ log[b].success
               /\ log[b].sent_at - log[a].sent_at < MinInterval(log[a].kind) * 60

\* Twice the recommended sleep duration of the child's age band, in minutes.
ReminderThreshold(c) == 2 * get_age_based_recommendations(ChildAge[c]).sleep_duration

\* Elapsed times around a threshold of m minutes, in seconds.
Around(m) == {0, 1, m * 60 - 1, m * 60, m * 60 + 1, (m + 20) * 60, m * 120}

UserOf(c) == CHOOSE u \in UserSet : c \in Range(ChildrenOf(u))

\* C18: for a child whose most recent session is closed with end time e,
\* needs-reminder at e + d is true exactly when d, in seconds, is strictly
\* greater than 2 x sleep_duration x 60: false at the threshold itself (age
\* band 4-6 months: false at 180 minutes, true at 200); the child's entry in
\* the evaluator's result carries e; and a reminder delivery in progress
\* names only children past their threshold or without a session.
C18_ReminderThreshold ==
    /\ \A c \in ChildSet :
           (SessionsWritten /\ latest_session(c) # <<>> /\ ~latest_session(c)[1].is_null) =>
               LET e == latest_session(c)[1].end_time
                   m == ReminderThreshold(c)
               IN  /\ \A d \in Around(m) :
                          /\ needs_reminder(c, e + d) = (d > m * 60)
                          /\ (~evaluator_raises(UserOf(c)) /\ d > m * 60) =>
                                 \E i \in 1..Len(get_children_needing_reminders(UserOf(c), e + d, TRUE)) :
                                     LET info == get_children_needing_reminders(UserOf(c), e + d, TRUE)[i]
                                     IN  info.child = c /\ info.last_session_time = <<e>>
                          /\ (~evaluator_raises(UserOf(c)) /\ d <= m * 60) =>
                                 c \notin AllChildren(get_children_needing_reminders(UserOf(c), e + d, TRUE))
                   /\ (ChildAge[c] \in 4..6) =>
                          /\ ~needs_reminder(c, e + 180 * 60)
                          /\ needs_reminder(c, e + 200 * 60)
    /\ (pc = "sending" /\ kind = SLEEP_REMINDERS /\ attempts = <<>>) =>
           \A i \in 1..Len(cur.infos) :
               \/ cur.infos[i].last_session_time = <<>>
               \/ now - cur.infos[i].last_session_time[1]
                      > ReminderThreshold(cur.infos[i].child) * 60

\* A reminder is being delivered for a child whose last closed session ended
\* more than the threshold ago; its entry carries that end time.
C18_Witness ==
    /\ pc = "sending" /\ kind = SLEEP_REMINDERS /\ attempts = <<>>
    /\ \E i \in 1..Len(cur.infos) :
           /\ cur.infos[i].last_session_time # <<>>
           /\ cur.infos[i].last_session_time[1] = SetMax(closedEnds[cur.infos[i].child])
           /\ now - cur.infos[i].last_session_time[1]
                  > ReminderThreshold(cur.infos[i].child) * 60

\* Wake window of the child's age band, in seconds.
WakeWindowSeconds(c) == get_age_based_recommendations(ChildAge[c]).wake_window * 60

\* Values of time_until around the two ends of the alert window, in seconds.
TimeUntils == {-600, -1, 0, 1, 59, 60, 61, 119, 300, 599, 600, 601, 1200}

\* C19: for a child whose most recent session is closed with end time e,
\* needs-bedtime-alert is true exactly when time_until = (e + wake window)
\* - now lies in 0..600 seconds, both ends included: true at 600 and at 0,
\* false at 601 and whenever the predicted bedtime is past (age band 4-6
\* months, session ended 80 minutes ago: true); and a bedtime-alert delivery
\* in progress names only children inside the window.
C19_BedtimeWindowClosed ==
    /\ \A c \in ChildSet :
           (SessionsWritten /\ latest_session(c) # <<>> /\ ~latest_session(c)[1].is_null) =>
               LET bedtime == latest_session(c)[1].end_time + WakeWindowSeconds(c)
               IN  /\ \A tu \in TimeUntils :
                          /\ time_until_bedtime(c, bedtime - tu) = tu
                          /\ needs_bedtime_alert(c, bedtime - tu) = (0 <= tu /\ tu <= 600)
                          /\ ~evaluator_raises(UserOf(c)) =>
                                 ((c \in AllChildren(get_children_needing_bedtime_alerts(
                                                         UserOf(c), bedtime - tu, TRUE)))
                                      = (0 <= tu /\ tu <= 600))
                   /\ (ChildAge[c] \in 4..6) =>
                          needs_bedtime_alert(c, latest_session(c)[1].end_time + 80 * 60)
    /\ (pc = "sending" /\ kind = BEDTIME_ALERTS /\ attempts = <<>>) =>
           \A i \in 1..Len(cur.infos) :
               LET c == cur.infos[i].child IN
               /\ closedEnds[c] # {}
               /\ 0 <= SetMax(closedEnds[c]) + WakeWindowSeconds(c) - now
               /\ SetMax(closedEnds[c]) + WakeWindowSeconds(c) - now <= 600

\* A bedtime alert is being delivered for a child whose predicted bedtime is
\* between 0 and 10 minutes away.
C19_Witness ==
    /\ pc = "sending" /\ kind = BEDTIME_ALERTS /\ attempts = <<>>
    /\ \E i \in 1..Len(cur.infos) :
           LET c == cur.infos[i].child IN
           /\ closedEnds[c] # {}
           /\ SetMax(closedEnds[c]) + WakeWindowSeconds(c) - now \in 0..600

\* C20: minutes_until_bedtime of every child the bedtime evaluator reports is
\* the whole number m with 60 m <= time_until < 60 (m + 1), in 0..10; the
\* alert names the child with the "now" wording exactly when m = 0 (so for
\* time_until from 0 to 59 seconds) and with the number of minutes otherwise;
\* the same holds for the text of every bedtime alert sent.
C20_MinutesUntilBedtime ==
    /\ \A c \in ChildSet :
           (SessionsWritten /\ latest_session(c) # <<>> /\ ~latest_session(c)[1].is_null
                /\ ~evaluator_raises(UserOf(c))) =>
               LET bedtime == latest_session(c)[1].end_time + WakeWindowSeconds(c)
               IN  \A tu \in TimeUntils :
                       LET infos == get_children_needing_bedtime_alerts(UserOf(c), bedtime - tu, TRUE)
                           text == bedtime_alert_text(infos)
                       IN  \A i \in 1..Len(infos) :
                               (infos[i].child = c) =>
                                   LET m == infos[i].minutes_until_bedtime IN
                                   /\ m \in 0..10
                                   /\ 60 * m <= tu /\ tu < 60 * (m + 1)
                                   /\ text[i].child = c
                                   /\ (text[i].wording = "now") = (m = 0)
                                   /\ (text[i].wording = "now") = (tu < 60)
                                   /\ (m # 0) => text[i].wording = "minutes" /\ text[i].minutes = m
    /\ (pc = "sending" /\ kind = BEDTIME_ALERTS /\ attempts = <<>>) =>
           \A i \in 1..Len(cur.infos) :
               LET c == cur.infos[i].child
                   m == cur.infos[i].minutes_until_bedtime
                   tu == SetMax(closedEnds[c]) + WakeWindowSeconds(c) - now
               IN  m \in 0..10 /\ 60 * m <= tu /\ tu < 60 * (m + 1)
    /\ \A j \in 1..Len(sent) :
           (sent[j].kind = BEDTIME_ALERTS) =>
               /\ Len(sent[j].text) = Len(sent[j].children)
               /\ \A i \in 1..Len(sent[j].text) :
                      /\ sent[j].text[i].child = sent[j].children[i]
                      /\ sent[j].text[i].minutes \in 0..10
                      /\ (sent[j].text[i].wording = "now") = (sent[j].text[i].minutes = 0)

\* A bedtime alert was sent that names a child with the number of minutes
\* to its bedtime.
C20_Witness ==
    \E j \in 1..Len(sent) :
        /\ sent[j].kind = BEDTIME_ALERTS /\ sent[j].at = 600
        /\ \E i \in 1..Len(sent[j].text) :
               /\ sent[j].text[i].wording = "minutes"
               /\ sent[j].text[i].minutes = 5

\* Instants at which the claims query the evaluators in a state.
QueryTimes == {now, now + 600, now + 7200, now + 14400}

\* C21: a child with no closed sleep session is, at every time, reported by
\* the reminder evaluator with no last session time, and is never reported by
\* the bedtime evaluator.
C21_NoClosedSessionReported ==
    \A c \in ChildSet :
        closedEnds[c] = {} =>
            \A t \in QueryTimes :
                LET rem == get_children_needing_reminders(UserOf(c), t, TRUE)
                    bed == get_children_needing_bedtime_alerts(UserOf(c), t, TRUE)
                IN  /\ \E i \in 1..Len(rem) :
                           rem[i].child = c /\ rem[i].last_session_time = <<>>
                    /\ c \notin AllChildren(bed)

\* The decision of an evaluator for child c from its closed sessions alone.
ClosedOnlyNeeds(k, c, t) ==
    /\ age_months(c) # <<>>
    /\ IF k = SLEEP_REMINDERS
       THEN \/ closedEnds[c] = {}
            \/ t - SetMax(closedEnds[c]) > ReminderThreshold(c) * 60
       ELSE /\ closedEnds[c] # {}
            /\ 0 <= SetMax(closedEnds[c]) + WakeWindowSeconds(c) - t
            /\ SetMax(closedEnds[c]) + WakeWindowSeconds(c) - t <= BEDTIME_WINDOW_MINUTES * 60

\* C22: both evaluators decide on the most recent closed session of each
\* child; an open session (end time null) changes the result neither for
\* its child nor for another child of the same user.
C22_OpenSessionIgnored ==
    \A u \in UserSet, k \in Kinds, t \in QueryTimes :
        AllChildren(children_needing(k, u, t, TRUE))
            = {c \in Range(ChildrenOf(u)) : ClosedOnlyNeeds(k, c, t)}

\* The ages of the claims on the band table, negative ones included.
Ages == (0 - MaxNegAge)..MaxAge

\* The band table as the specification words it: inclusive age ranges in
\* ascending order, the first with no lower end and the last with no upper end.
BandTable ==
    << [from |-> 0 - MaxNegAge, to |-> 3, wake_window |-> 45, sleep_duration |-> 120],
       [from |-> 4, to |-> 6, wake_window |-> 90, sleep_duration |-> 90],
       [from |-> 7, to |-> 12, wake_window |-> 120, sleep_duration |-> 90],
       [from |-> 13, to |-> 24, wake_window |-> 180, sleep_duration |-> 120],
       [from |-> 25, to |-> MaxAge + 1, wake_window |-> 240, sleep_duration |-> 90] >>

BandsOf(age) == {i \in 1..Len(BandTable) : BandTable[i].from <= age /\ age <= BandTable[i].to}

\* C23: recommend(age) is total and returns exactly one band of the table
\* (<= 3: 45/120; 4..6: 90/90; 7..12: 120/90; 13..24: 180/120; > 24: 240/90),
\* every negative age returns the band of age 0, and a pass decides with the
\* band of the child's age. (The table does not depend on the state: it is
\* queried in the states before the first pass.)
C23_AgeBands ==
    /\ \A age \in IF passNo = 0 THEN Ages ELSE {} :
           /\ Cardinality(BandsOf(age)) = 1
           /\ \A i \in BandsOf(age) :
                  get_age_based_recommendations(age)
                      = [wake_window |-> BandTable[i].wake_window,
                         sleep_duration |-> BandTable[i].sleep_duration]
           /\ age < 0 => get_age_based_recommendations(age) = get_age_based_recommendations(0)
    /\ (pc = "sending" /\ attempts = <<>> /\ kind = BEDTIME_ALERTS) =>
           \A i \in 1..Len(cur.infos) :
               LET c == cur.infos[i].child IN
               \A b \in BandsOf(ChildAge[c]) :
                   /\ closedEnds[c] # {}
                   /\ SetMax(closedEnds[c]) + BandTable[b].wake_window * 60 - now
                          \in 0..(BEDTIME_WINDOW_MINUTES * 60)

C23_Witness ==
    /\ pc = "sending" /\ attempts = <<>> /\ kind = BEDTIME_ALERTS
    /\ \E i \in 1..Len(cur.infos) :
           /\ ChildAge[cur.infos[i].child] <= 3
           /\ SetMax(closedEnds[cur.infos[i].child]) + 45 * 60 - now \in 0..600

\* Birth dates from MaxYears years back to one year ahead of today.
BirthDates ==
    {[year |-> y, month |-> m] : y \in (Today.year - MaxYears)..(Today.year + 1), m \in 1..12}

MonthsBetween(birth_date, today) ==
    12 * (today.year - birth_date.year) + (today.month - birth_date.month)

\* C24: get_child_age_in_months returns max(0, 12 x year difference + month
\* difference) for every birth date, one later than today included, and none
\* when the child is not found; the age an evaluator uses is never negative
\* and a child without an age is skipped by both evaluators.
C24_AgeNeverNegative ==
    /\ \A bd \in IF passNo = 0 THEN BirthDates ELSE {} :
           LET r == get_child_age_in_months(<<bd>>, Today) IN
           /\ Len(r) = 1
           /\ r[1] >= 0
           /\ r[1] >= MonthsBetween(bd, Today)
           /\ r[1] \in {0, MonthsBetween(bd, Today)}
    /\ get_child_age_in_months(<<>>, Today) = <<>>
    /\ \A u \in UserSet : \A c \in Range(ChildrenOf(u)) :
           IF age_months(c) = <<>>
           THEN SessionsWritten =>
                    \A k \in Kinds : c \notin AllChildren(children_needing(k, u, now, TRUE))
           ELSE age_months(c)[1] >= 0
    /\ pc \in {"sending", "backoff", "throttle"} =>
           \A i \in 1..Len(cur.infos) : age_months(cur.infos[i].child) # <<>>

C24_Witness ==
    /\ pc = "sending"
    /\ cur.infos # <<>>
    /\ \E c \in Range(ChildrenOf(cur.user)) :
           age_months(c) = <<>> /\ c \notin AllChildren(cur.infos)

\* C25: the reminder evaluator is deterministic and read-only: the step of a
\* pass that calls it for a user changes no store state (sessions, log,
\* preferences, user settings), a second call for the same user at the same
\* instant returns the same result, and that result is what the pass sends.
C25_Step ==
    (pc = "loop" /\ idx <= Len(users) /\ kind = SLEEP_REMINDERS) =>
        \A u \in {users[idx]}, t \in {now} :
            /\ UNCHANGED <<closedEnds, openSess, log, prefs, settings>>
            /\ get_children_needing_reminders(u, t, TRUE)'
                   = get_children_needing_reminders(u, t, TRUE)
            /\ pc' = "sending" => cur'.infos = get_children_needing_reminders(u, t, TRUE)

PreferenceKinds == {SLEEP_REMINDERS, BEDTIME_ALERTS, WAKE_REMINDERS}

OtherRows(rows, u, k) == rows \ pref_rows(rows, u, k)

C26_Inv ==
    /\ \A u \in UserSet, k \in PreferenceKinds : Cardinality(pref_rows(prefs, u, k)) <= 1
    /\ \A u \in UserSet, k \in PreferenceKinds, e \in BOOLEAN :
           LET after == upsert(prefs, pref_row(u, k, e)) IN
           /\ pref_rows(after, u, k) = {pref_row(u, k, e)}
           /\ OtherRows(after, u, k) = OtherRows(prefs, u, k)
    /\ \A u \in UserSet :
           \A after \in {initialize_user_notifications(prefs, u),
                         migrate_user_settings(prefs, u, settings[u])} :
               /\ \A v \in UserSet, k \in PreferenceKinds : Cardinality(pref_rows(after, v, k)) <= 1
               /\ \A k \in PreferenceKinds : Cardinality(pref_rows(after, u, k)) = 1
               /\ {r \in after : r.user # u} = {r \in prefs : r.user # u}

C26_Step ==
    prefs' # prefs =>
        \E u \in UserSet :
            /\ {r \in prefs' : r.user # u} = {r \in prefs : r.user # u}
            /\ \/ \E k \in PreferenceKinds, e \in BOOLEAN :
                      prefs' = OtherRows(prefs, u, k) \cup {pref_row(u, k, e)}
               \/ \E e \in BOOLEAN, w \in BOOLEAN :
                      prefs' = {r \in prefs : r.user # u}
                                   \cup {pref_row(u, k, e) : k \in Kinds}
                                   \cup {pref_row(u, WAKE_REMINDERS, w)}

\* C26: after any sequence of set_notification_preference,
\* initialize_user_notifications and migrate_user_settings calls the table
\* holds at most one row per (user, kind); setting a preference replaces the
\* enabled value of its (user, kind) and leaves every other row unchanged.
C26_OneRowPerUserAndKind == []C26_Inv /\ [][C26_Step]_vars

C26_Witness ==
    /\ envOps >= 2
    /\ pref_row("u1", SLEEP_REMINDERS, FALSE) \in prefs
    /\ pref_row("u1", BEDTIME_ALERTS, TRUE) \in prefs
    /\ pref_row("u2", BEDTIME_ALERTS, TRUE) \in prefs
    /\ pref_row("u2", SLEEP_REMINDERS, TRUE) \in prefs

\* C27: a user with no preference row for kind K is treated as enabled for K
\* everywhere: is_notification_enabled(user, K) is true and the user is among
\* the users a pass enumerates for K, so that the two views of "enabled"
\* agree for every user and kind.
C27_AbsentRowEnabledEverywhere ==
    \A u \in UserSet, k \in Kinds :
        /\ pref_rows(prefs, u, k) = {} =>
               /\ is_notification_enabled(u, k)
               /\ u \in Range(get_users_for_notification_type(k, TRUE))
        /\ is_notification_enabled(u, k) <=> u \in Range(get_users_for_notification_type(k, TRUE))

\* The rows a delivery appended are where it appended them.
C28_Inv ==
    \A i \in 1..Len(sent) :
        /\ sent[i].row + Len(sent[i].children) <= Len(log)
        /\ \A j \in 1..Len(sent[i].children) :
               log[sent[i].row + j]
                   = log_entry(sent[i].user, sent[i].kind, sent[i].children[j],
                               sent[i].msg, sent[i].at)

C28_Step ==
    log' # log => /\ Len(log') > Len(log)
                  /\ SubSeq(log', 1, Len(log)) = log

\* C28: the notification log is append-only: over passes, deliveries, retries
\* and cooldown checks every step leaves the log as a prefix of the new log,
\* and the rows of every delivery stay where they were appended.
C28_LogAppendOnly == []C28_Inv /\ [][C28_Step]_vars

C28_Witness ==
    /\ Len(log) >= 3
    /\ log[1].msg = 0
    /\ \E i, j \in 1..Len(log) : i < j /\ log[i].msg > 0 /\ log[j].msg > log[i].msg

C29_Step ==
    /\ <<pc, kind, users, idx, cur, passNo, log, sent>>'
           # <<pc, kind, users, idx, cur, passNo, log, sent>> => settings' = settings
    /\ \A u \in UserSet :
           settings'[u].last_reminder_sent = settings[u].last_reminder_sent
    /\ (pc = "loop" /\ idx <= Len(users)) =>
           \A u \in {users[idx]} :
               (pc' = "sending")
                   <=> /\ children_needing(kind, u, now, TRUE) # <<>>
                       /\ should_send_notification(log, now, u, kind, NoChild,
                                                   MinInterval(kind), TRUE)

\* C29: the elapsed-time cooldown over the notification log is the sole dedup
\* of a pass: no step of a pass changes users.settings, the field
\* last_reminder_sent keeps its value, and the pass sends to a user exactly
\* when the evaluator reports children and the cooldown over the log allows
\* it, whatever last_reminder_sent holds.
C29_CooldownIsSoleDedup == [][C29_Step]_vars

\* A reminder goes out although the last_reminder_sent dedup would refuse it.
C29_Witness ==
    /\ pc = "throttle" /\ kind = SLEEP_REMINDERS
    /\ Last(attempts).outcome = "ok"
    /\ settings[cur.user].last_reminder_sent # <<>>
    /\ ~should_send_reminder(cur.user, AllChildren(cur.infos))

SwitchedOn(u) == settings[u].sleep_reminders /\ settings[u].notifications_enabled

C30_Step ==
    /\ (pc = "idle" /\ pc' = "loop") =>
           \A i \in 1..Len(users') : SwitchedOn(users'[i])
    /\ (sent' # sent /\ kind = SLEEP_REMINDERS) => SwitchedOn(cur.user)

\* C30: after a user switches sleep reminders, or notifications as a whole,
\* off through the settings toggle, no later pass enumerates that user for
\* sleep reminders or sends the user a sleep reminder until the user
\* switches it back on.
C30_NoReminderAfterSwitchOff == [][C30_Step]_vars

\* A successful row of (u, k), about any child, lies inside the interval at t.
InCooldown(u, k, t) == \E s \in SuccessfulAt(log, u, k) : t - s < MinInterval(k) * 60

\* Child c has no row of kind k in the log.
NeverNotified(c, k) == \A i \in 1..Len(log) : ~(log[i].child = c /\ log[i].kind = k)

C31_Step ==
    (pc = "loop" /\ idx <= Len(users)) =>
        \A u \in {users[idx]} :
            InCooldown(u, kind, now) =>
                /\ pc' = "loop" /\ idx' = idx + 1
                /\ UNCHANGED <<sent, log, cur>>

\* C31: in a pass the cooldown is evaluated per (user, kind) with no child:
\* while a successful row of kind K about any child of the user lies inside
\* the interval, the pass goes on to the next user without a message of kind
\* K, also when another child, never notified, is in the condition.
C31_CooldownPerUserAndKind == [][C31_Step]_vars

\* The bedtime phase has just passed over a user in cooldown one of whose
\* children is inside its bedtime window and was never notified.
C31_Witness ==
    /\ pc = "loop" /\ kind = BEDTIME_ALERTS
    /\ idx > 1 /\ idx - 1 <= Len(users)
    /\ InCooldown(users[idx - 1], kind, now)
    /\ \A i \in 1..Len(sent) :
           ~(sent[i].pass = passNo /\ sent[i].user = users[idx - 1] /\ sent[i].kind = kind)
    /\ \E c \in AllChildren(children_needing(kind, users[idx - 1], now, TRUE)) :
           /\ NeverNotified(c, kind)
           /\ should_send_notification(log, now, users[idx - 1], kind, c, MinInterval(kind), TRUE)

C32_Inv ==
    \A u \in UserSet, k \in Kinds :
        /\ get_notification_history(log, u, k, HISTORY_LIMIT, FALSE) = <<>>
        /\ \A c \in ChildSet \cup {NoChild} :
               should_send_notification(log, now, u, k, c, MinInterval(k), FALSE)

C32_Step ==
    (pc = "loop" /\ idx <= Len(users) /\ pc' = "sending") =>
        \A u \in {users[idx]} :
            /\ cur'.allowed
            /\ InCooldown(u, kind, now) => faults' = faults + 1

\* C32: the cooldown check fails open: when the notification log cannot be
\* read the history is empty and should_send is true, whatever the log
\* holds; a pass then sends although a successful row lies inside the
\* interval, and it sends inside the interval in no other case.
C32_CooldownFailsOpen == []C32_Inv /\ [][C32_Step]_vars

\* A message accepted while a successful row of its (user, kind), written
\* before the cooldown check, lies inside the interval.
C32_Witness ==
    /\ pc = "throttle" /\ Last(attempts).outcome = "ok"
    /\ \E j \in 1..cur.logLen :
           /\ log[j].user = cur.user /\ log[j].kind = kind /\ log[j].success
           /\ Last(sent).at - log[j].sent_at < MinInterval(kind) * 60

C33_Step ==
    /\ pc \in {"sending", "backoff"} => cur'.infos = cur.infos /\ cur'.user = cur.user
    /\ (pc = "backoff" /\ pc' # "backoff") => pc' = "sending"
    /\ (pc = "sending" /\ sent' # sent) =>
           /\ Last(sent').user = cur.user
           /\ Last(sent').children = ChildIds(cur.infos)
           /\ Last(sent').text = message_text(kind, cur.infos)

\* C33: a rate-limit retry re-sends the children list computed before the
\* wait: from the cooldown check to the accepted message the list of the
\* delivery does not change, the end of the wait always leads to another
\* send, and the message and its rows are those of that list, whatever the
\* sessions, the clock and the preferences have become during the wait.
C33_RetryDoesNotReevaluate == [][C33_Step]_vars

\* A message accepted after a wait during which its kind was disabled.
C33_Witness ==
    /\ pc = "throttle" /\ Last(attempts).outcome = "ok"
    /\ \E i \in 1..Len(attempts) : attempts[i].outcome = "retry_after"
    /\ pref_row(cur.user, kind, FALSE) \in prefs
    /\ Last(sent).user = cur.user /\ Last(sent).at = now

\* The times of the sleep reminders accepted for user u.
ReminderTimes(u) ==
    {sent[i].at : i \in {j \in 1..Len(sent) : sent[j].user = u /\ sent[j].kind = SLEEP_REMINDERS}}

\* Sleep reminders are enabled for the user and one of its children is in
\* the needs-reminder condition (by its closed sessions).
ReminderDue(u) ==
    /\ is_notification_enabled(u, SLEEP_REMINDERS)
    /\ \E c \in Range(ChildrenOf(u)) : ClosedOnlyNeeds(SLEEP_REMINDERS, c, now)

\* The last tick of the run.
LastTickTime == MaxLiveTicks * NOTIFICATION_INTERVAL_MINUTES * 60

\* The n-th reminder of u was accepted at least one interval before the last
\* tick of the run.
NthReminderInTime(u, n) ==
    /\ Cardinality(ReminderTimes(u)) = n
    /\ SetMax(ReminderTimes(u)) + REMINDER_MIN_INTERVAL * 60 <= LastTickTime

PredictedBedtime(c) ==
    latest_session(c)[1].end_time
        + get_age_based_recommendations(ChildAge[c]).wake_window * 60

\* Instants of the bedtime-alert window of child c: its two ends and the middle.
BedtimeWindowTimes(c) ==
    {PredictedBedtime(c) - BEDTIME_WINDOW_MINUTES * 60,
     PredictedBedtime(c) - (BEDTIME_WINDOW_MINUTES * 60) \div 2,
     PredictedBedtime(c)}

\* C35: a child inside its bedtime-alert window does not at the same instant
\* satisfy the needs-reminder condition, whatever its age band: the reminder
\* predicate takes over only after the predicted bedtime.
C35_ReminderOnlyAfterBedtimeWindow ==
    \A c \in ChildSet :
        (latest_session(c) # <<>> /\ ~latest_session(c)[1].is_null) =>
            \A t \in BedtimeWindowTimes(c) :
                needs_bedtime_alert(c, t) => ~needs_reminder(c, t)

\* Evaluating child c raises: its age is known and the latest row of its
\* sessions is an open one.
RaisingChild(c) == age_months(c) # <<>> /\ c \in ChildSet /\ openSess[c]

RaisingUser(u) == \E c \in Range(ChildrenOf(u)) : RaisingChild(c)

\* The children of u, in the order of the children table, that satisfy the
\* condition of kind k at time t.
ChildrenThatNeed(k, u, t) ==
    LET Test(c) == Needs(k, c, t)
    IN  SelectSeq(ChildrenOf(u), Test)

\* The call of the evaluator the pass is about to make.
C36_Inv ==
    (pc = "loop" /\ idx <= Len(users)) =>
        LET u == users[idx]
            res == children_needing(kind, u, now, TRUE)
        IN  IF RaisingUser(u) THEN res = <<>>
            ELSE ChildIds(res) = ChildrenThatNeed(kind, u, now)

\* C36: an evaluator returns all or nothing for a user. When evaluating one
\* child of the user raises, the result is empty, the children already found
\* are dropped and the pass starts no message of that kind for the user; a
\* child whose age cannot be determined is skipped and the result is exactly
\* its siblings that satisfy the condition.
C36_Step ==
    (pc = "loop" /\ idx <= Len(users) /\ RaisingUser(users[idx])) =>
        (pc' # "sending" /\ sent' = sent /\ log' = log)

C36_EvaluatorAllOrNothing == []C36_Inv /\ [][C36_Step]_vars

\* The pass has just gone past a user one of whose children raises while a
\* sibling needs a reminder and the cooldown allows it: nothing was sent; and
\* the other user has a child reported next to one of unknown age.
C36_Witness ==
    /\ pc = "loop" /\ kind = SLEEP_REMINDERS /\ idx > 1
    /\ LET u == users[idx - 1]
       IN  /\ RaisingUser(u)
           /\ \E c \in Range(ChildrenOf(u)) :
                  c \in ChildSet /\ ~openSess[c] /\ Needs(SLEEP_REMINDERS, c, now)
           /\ should_send_notification(log, now, u, SLEEP_REMINDERS, NoChild,
                                       MinInterval(SLEEP_REMINDERS), TRUE)
           /\ \A i \in 1..Len(sent) : ~(sent[i].user = u /\ sent[i].pass = passNo)
    /\ \E v \in UserSet :
           /\ \E d \in Range(ChildrenOf(v)) : age_months(d) = <<>>
           /\ children_needing(SLEEP_REMINDERS, v, now, TRUE) # <<>>

\* The children of u that are in the needs-reminder condition at time t.
ChildrenDue(u, t) == {c \in Range(ChildrenOf(u)) : ClosedOnlyNeeds(SLEEP_REMINDERS, c, t)}

\* The messages of test reminders (sent outside a pass) and of passes.
TestMessages == {i \in 1..Len(sent) : sent[i].pass = 0}

\* No scheduled reminder follows a test reminder to the same user by less
\* than the minimum interval.
C37_Inv ==
    \A i \in TestMessages :
        \A j \in 1..Len(sent) :
            (j > i /\ sent[j].pass > 0 /\ sent[j].user = sent[i].user
                   /\ sent[j].kind = SLEEP_REMINDERS) =>
                sent[j].at - sent[i].at >= REMINDER_MIN_INTERVAL * 60

\* C37: send_test_reminder starts a sleep reminder for the user exactly when
\* one of its children needs a reminder, whatever the cooldown and the
\* preference of the user say, and for exactly the children that need one;
\* a message the notifier accepts is logged as a scheduled reminder is, one
\* successful sleep_reminders row per child, so that should_send is false
\* for the user during the next 60 minutes and no scheduled reminder follows
\* within them.
C37_Step ==
    /\ \A u \in UserSet :
           send_test_reminder(u) =>
               /\ (pc' = "test_sending") <=> (ChildrenDue(u, now) # {})
               /\ pc' = "test_sending" =>
                      (cur'.user = u /\ AllChildren(cur'.infos) = ChildrenDue(u, now))
    /\ (pc = "test_sending" /\ sent' # sent) =>
           /\ Last(sent').user = cur.user /\ Last(sent').kind = SLEEP_REMINDERS
           /\ Last(sent').children = ChildIds(cur.infos)
           /\ log' = log \o [i \in 1..Len(cur.infos) |->
                                log_entry(cur.user, SLEEP_REMINDERS, cur.infos[i].child,
                                          Last(sent').msg, now)]
           /\ \A d \in Elapsed(SLEEP_REMINDERS) :
                  should_send_notification(log', now + d, cur.user, SLEEP_REMINDERS, NoChild,
                                           MinInterval(SLEEP_REMINDERS), TRUE)
                      = (d >= REMINDER_MIN_INTERVAL * 60)
    /\ (pc = "test_sending" /\ sent' = sent) => log' = log

C37_TestReminderUnchecked == []C37_Inv /\ [][C37_Step]_vars

\* C38: a register_user(u) whose store calls succeed leaves exactly one row
\* of u for each of sleep_reminders, bedtime_alerts and wake_reminders, each
\* enabled, whatever the rows of u were before (a disabled kind is enabled
\* again); the rows of the other users and the notification log are unchanged.
C38_Step ==
    \A u \in UserSet :
        register_user(u, TRUE) =>
            /\ \A k \in PreferenceKinds : pref_rows(prefs', u, k) = {pref_row(u, k, TRUE)}
            /\ {r \in prefs' : r.user # u} = {r \in prefs : r.user # u}
            /\ log' = log
            /\ sent' = sent

C38_RegisterEnablesEveryKind == [][C38_Step]_vars

\* u1 was left out of the reminders of the first pass although its child b
\* has no session and nothing was logged before (its sleep_reminders row was
\* disabled), then registered again (its settings are the defaults; these
\* are the two writes of the run), and the second pass reminded it: every
\* kind of u1 is enabled.
C38_Witness ==
    /\ envOps = 2
    /\ settings["u1"] = RegisteredSettings
    /\ \A k \in PreferenceKinds : pref_rows(prefs, "u1", k) = {pref_row("u1", k, TRUE)}
    /\ closedEnds["b"] = {}
    /\ \A i \in 1..Len(log) : log[i].msg > 0
    /\ \E i \in 1..Len(sent) :
           sent[i].user = "u2" /\ sent[i].pass = 1 /\ sent[i].kind = SLEEP_REMINDERS
    /\ \A i \in 1..Len(sent) :
           ~(sent[i].user = "u1" /\ sent[i].pass = 1 /\ sent[i].kind = SLEEP_REMINDERS)
    /\ \E i \in 1..Len(sent) :
           sent[i].user = "u1" /\ sent[i].pass = 2 /\ sent[i].kind = SLEEP_REMINDERS

====
